---- MODULE Spec2Model ----
(***************************************************************************)
(* Match lifecycle and settlement engine of footballhub (src/index.js).    *)
(*                                                                         *)
(* The store is the four Couchbase collections the match handlers use      *)
(* (matches, teams, players, trophies).  Every handler is a process whose  *)
(* steps are its awaits: one action is one store operation together with   *)
(* the synchronous code that follows it up to the next await.  Store       *)
(* operations are whole-document get / upsert, so a handler works on the   *)
(* copy it fetched and writes that copy back.                              *)
(***************************************************************************)
EXTENDS Integers, Sequences, FiniteSets, TLC

(* ---------------------------------------------------------------- bounds *)

\* Total number of API calls (respondToInvite + submitStats) in one behaviour.
MaxCalls == 2

(* ------------------------------------------------------------- universe  *)

M == "m1"                          \* the match id under study
TeamIds == {"H", "A"}              \* H = match.myTeamId, A = match.opponentTeamId
PlayerIds == {"ch", "ca"}          \* ch captains H, ca captains A
Callers == {"x", "ch", "ca"}       \* x captains no team
Procs == {"p1", "p2"}              \* request handlers in flight at once
Sweeper == "sw"                    \* the one-minute cron job
Cleaner == "cl"                    \* the daily notification cleanup job
AllProcs == Procs \cup {Sweeper, Cleaner}

\* Scheduled times of the match on the model's clock (match.startTime, match.endTime)
Schedule == [startTime |-> 1, endTime |-> 2]

\* getDefaultStats: base.points
InitialPoints == 500

\* The trophy document the match is tied to (Scenario A of the specification).
Trophy == [id |-> "T", fee |-> 100,
           distribution |-> [win |-> 70, lose |-> 30],
           bonuses |-> [goal |-> 5, assist |-> 3, motm |-> 10]]

\* A trophy with an odd fee, whose shares are no whole numbers.
OddTrophy == [id |-> "O", fee |-> 105,
              distribution |-> [win |-> 55, lose |-> 45],
              bonuses |-> [goal |-> 5, assist |-> 3, motm |-> 10]]

\* A trophy whose fee is more than two players start with.
BigTrophy == [id |-> "B", fee |-> 1200,
              distribution |-> [win |-> 70, lose |-> 30],
              bonuses |-> [goal |-> 5, assist |-> 3, motm |-> 10]]

\* A trophy posted with a negative fee (fee: Number(fee) is stored as sent) and
\* a distribution that leaves a fifth of the pool out.
OwedTrophy == [id |-> "N", fee |-> -100,
               distribution |-> [win |-> 50, lose |-> 30],
               bonuses |-> [goal |-> 5, assist |-> 3, motm |-> 10]]

\* What stands for the content of a trophy document that does not exist; the
\* handlers return before they read it.
NoTrophy == [id |-> "none", fee |-> 0,
             distribution |-> [win |-> 0, lose |-> 0],
             bonuses |-> [goal |-> 0, assist |-> 0, motm |-> 0]]

\* trophyDoc.content of the trophy with the given id: trophies are inserted by
\* POST /trophy and never changed afterwards.
TrophyDoc(trophyId) ==
  CASE trophyId = Trophy.id -> Trophy
    [] trophyId = OddTrophy.id -> OddTrophy
    [] trophyId = BigTrophy.id -> BigTrophy
    [] trophyId = OwedTrophy.id -> OwedTrophy
    [] OTHER -> NoTrophy

NotifKinds == {"motm", "match_invite", "cancelled", "upcoming", "completed",
               "results", "rate"}

ActiveStatuses == {"upcoming", "completed", "live"}

(* ------------------------------------------------------------ documents  *)

NoStats == [kind |-> "undef", recs |-> <<>>]
NoResult == [set |-> FALSE, myGoals |-> 0, oppGoals |-> 0,
             winner |-> "none", motm |-> "none"]

\* POST /match: matchData, after the insert and the invitation
NewMatch(trophyId, playersSelected) ==
  [status |-> "pending", trophyId |-> trophyId,
   myPlayers |-> playersSelected, opponentPlayers |-> <<>>,
   startTime |-> Schedule.startTime, endTime |-> Schedule.endTime,
   myTeamStats |-> NoStats, oppTeamStats |-> NoStats,
   myTeamSubmitted |-> FALSE, oppTeamSubmitted |-> FALSE,
   result |-> NoResult]

NewTeam(captain) ==
  [captain |-> captain, teamPlayers |-> <<captain>>,
   ratingCount |-> 0, ratingAvg |-> 0,
   matchesPlayed |-> 0, wins |-> 0, losses |-> 0, draws |-> 0,
   achievements |-> <<>>]

\* The six skills of a goalkeeper and of an outfield player, and all of them
\* (a skill a document does not carry reads as 0: player[skill] || 0).
KeeperSkills == {"reflexes", "diving", "handling", "positioning", "kicking", "speed"}
OutfieldSkills == {"defence", "physical", "passing", "pace", "dribbling", "shooting"}
AllSkills == KeeperSkills \cup OutfieldSkills
Positions == {"Goalkeeper", "Defender", "Midfielder", "Forward"}

\* getDefaultStats(position): the position's skills.  Skill values are kept in
\* tenths (one decimal is what improveSkill stores).
DefaultSkills(position) ==
  LET none == [sk \in AllSkills |-> 0]
  IN CASE position = "Goalkeeper" ->
            [none EXCEPT !["diving"] = 500, !["handling"] = 500, !["kicking"] = 500,
                         !["reflexes"] = 500, !["positioning"] = 500, !["speed"] = 400]
       [] position = "Defender" ->
            [none EXCEPT !["pace"] = 450, !["shooting"] = 300, !["passing"] = 500,
                         !["dribbling"] = 400, !["defence"] = 650, !["physical"] = 600]
       [] position = "Midfielder" ->
            [none EXCEPT !["pace"] = 600, !["shooting"] = 550, !["passing"] = 650,
                         !["dribbling"] = 600, !["defence"] = 550, !["physical"] = 550]
       [] position = "Forward" ->
            [none EXCEPT !["pace"] = 700, !["shooting"] = 700, !["passing"] = 550,
                         !["dribbling"] = 650, !["defence"] = 350, !["physical"] = 550]
       [] OTHER -> none

\* getDefaultStats(position) with the position signup stores next to it: the
\* fields of a player document that settlement and the notifications touch.
\* overalRating is in tenths, overallPerformance in hundredths.
GetDefaultStats(position) ==
  [position |-> position, skills |-> DefaultSkills(position),
   auraPoints |-> 0, matches |-> 0, goals |-> 0, assists |-> 0,
   points |-> InitialPoints, wins |-> 0, losses |-> 0, draws |-> 0,
   overalRating |-> 0, overallPerformance |-> 0,
   redCards |-> 0, yellowCards |-> 0,
   achievements |-> <<>>, matchHistory |-> <<>>,
   notifications |-> [k \in NotifKinds |-> 0]]

\* A signed-up player; the players of the model sign up as forwards.
NewPlayer == GetDefaultStats("Forward")

\* A stat record of teamStats.  A count the record does not carry is 0
\* (stat.x || 0) and opponentTeamRating 0 stands for an absent rating.
StatRec(playerId, goals, assists) ==
  [playerId |-> playerId, goals |-> goals, assists |-> assists,
   yellowCards |-> 0, redCards |-> 0, opponentTeamRating |-> 0]

VARIABLES
  matches,      \* matches collection: match id -> document
  teams,        \* teams collection: team id -> document
  players,      \* players collection: player id -> document
  trophies,     \* trophies collection: set of trophy ids that resolve
  now,          \* wall clock
  pc,           \* each process's next await
  loc,          \* each process's local variables
  calls,        \* API calls started so far
  settleRuns,   \* how many times distributePoints/updateTeam were entered
  okSubmit      \* captains whose submitStats call has returned success

vars == <<matches, teams, players, trophies, now, pc, loc, calls,
          settleRuns, okSubmit>>

store == <<matches, teams, players, trophies>>

(* ------------------------------------------------------- process locals  *)

IdleLoc ==
  [kind |-> "none", caller |-> "none", action |-> "none",
   teamStats |-> NoStats, teamRate |-> 0, playersSelected |-> <<>>,
   match |-> NewMatch("none", <<>>), rd |-> "none",
   myTeam |-> NewTeam("none"), oppTeam |-> NewTeam("none"),
   player |-> NewPlayer, who |-> "none",
   nq |-> <<>>, ret |-> "none", work |-> <<>>, res |-> NoResult,
   opponentTeamId |-> "none", matchId |-> "none",
   wrote |-> FALSE, result |-> "none"]

\* A finished call keeps what the claims look at and drops the rest.
Finish(l, result) ==
  [IdleLoc EXCEPT !.kind = l.kind, !.caller = l.caller, !.action = l.action,
                  !.teamStats = l.teamStats, !.teamRate = l.teamRate,
                  !.rd = l.rd, !.wrote = l.wrote, !.result = result]

(* ----------------------------------------------------------------- Init  *)

InitRest ==
  /\ teams = [t \in TeamIds |-> NewTeam(IF t = "H" THEN "ch" ELSE "ca")]
  /\ trophies = {Trophy.id}
  /\ now = 0
  /\ pc = [p \in AllProcs |-> "idle"]
  /\ loc = [p \in AllProcs |-> IdleLoc]
  /\ calls = 0
  /\ settleRuns = 0

\* After POST /match: the match is pending and the invited captain is notified.
PendingMatch(roster) == NewMatch(Trophy.id, roster)
PendingPlayers ==
  [q \in PlayerIds |->
     IF q = "ca" THEN [NewPlayer EXCEPT !.notifications["match_invite"] = 1]
     ELSE NewPlayer]

\* After the invited captain's accept has run alone: the match is upcoming, the
\* entry fee is deducted from both rosters and every team player is notified.
AcceptedMatch ==
  [PendingMatch(<<"ch">>) EXCEPT !.status = "upcoming",
                                 !.opponentPlayers = <<"ca">>]
AcceptedPlayers ==
  [q \in PlayerIds |->
     [NewPlayer EXCEPT !.points = @ - (Trophy.fee \div 2),
                       !.notifications["upcoming"] = 1]]

\* After the away captain's submitStats has then run alone (no rating given).
AwaySubmittedMatch ==
  [AcceptedMatch EXCEPT
     !.oppTeamStats = [kind |-> "array",
                       recs |-> <<StatRec("ca", 1, 0)>>],
     !.oppTeamSubmitted = TRUE]

\* The match and the players at a stage of the match's life, each the state a
\* sequential run of the handlers leaves.
InitAt(stage) ==
  /\ matches = [m \in {M} |->
                  CASE stage = "pending" -> PendingMatch(<<"ch">>)
                    [] stage = "upcoming" -> AcceptedMatch
                    [] OTHER -> AwaySubmittedMatch]
  /\ players = IF stage = "pending" THEN PendingPlayers ELSE AcceptedPlayers
  /\ okSubmit = IF stage = "awaySubmitted" THEN {"ca"} ELSE {}
  /\ InitRest

\* Time passes.
ClockAdvance ==
  /\ now < Schedule.endTime
  /\ now' = now + 1
  /\ UNCHANGED <<matches, teams, players, trophies, pc, loc, calls,
                 settleRuns, okSubmit>>

(* ------------------------------------------------------ sendNotification *)

\* One call sendNotification(recipients, notif): recipients.map(async ...) makes
\* one request per recipient, all started together (Promise.all); each request
\* is a players.get followed by a players.upsert.
NotifRequests(recipients, kind) ==
  IF recipients = <<>> THEN <<>>
  ELSE << [i \in 1..Len(recipients) |->
             [to |-> recipients[i], kind |-> kind, got |-> FALSE, doc |-> NewPlayer]] >>

\* Enter the awaited sendNotification calls q (one after the other); continue at
\* label ret afterwards.
EnterNotify(l, q, ret) ==
  [l EXCEPT !.nq = q, !.ret = ret]

\* await Promise.all(...): the caller goes on when no request is left.
NotifyPc(q, ret) == IF q = <<>> THEN ret ELSE "notify"

\* The calls still to serve once request i of the first call has ended.
RemoveAt(q, i) ==
  LET rest == SubSeq(Head(q), 1, i - 1) \o SubSeq(Head(q), i + 1, Len(Head(q)))
  IN IF rest = <<>> THEN Tail(q) ELSE <<rest>> \o Tail(q)

\* player.notifications.push({...notif})
PushNotification(doc, kind) ==
  [doc EXCEPT !.notifications[kind] = @ + 1]

\* const playerDoc = await players.get(email).catch(() => null); if (!playerDoc) return;
NotifyGet(p) ==
  /\ pc[p] = "notify"
  /\ \E i \in 1..Len(Head(loc[p].nq)) :
       LET l == loc[p]
           h == Head(l.nq)[i]
       IN /\ ~h.got
          /\ IF h.to \in DOMAIN players
               THEN /\ loc' = [loc EXCEPT ![p] =
                         [l EXCEPT !.nq[1][i] =
                            [h EXCEPT !.got = TRUE,
                                      !.doc = PushNotification(players[h.to], h.kind)]]]
                    /\ UNCHANGED pc
               ELSE /\ loc' = [loc EXCEPT ![p] = [l EXCEPT !.nq = RemoveAt(l.nq, i)]]
                    /\ pc' = [pc EXCEPT ![p] = NotifyPc(RemoveAt(l.nq, i), l.ret)]
  /\ UNCHANGED <<matches, teams, players, trophies, now, calls,
                 settleRuns, okSubmit>>

\* await players.upsert(email, player)
NotifyPut(p) ==
  /\ pc[p] = "notify"
  /\ \E i \in 1..Len(Head(loc[p].nq)) :
       LET l == loc[p]
           h == Head(l.nq)[i]
       IN /\ h.got
          /\ players' = [players EXCEPT ![h.to] = h.doc]
          /\ loc' = [loc EXCEPT ![p] =
                       [l EXCEPT !.nq = RemoveAt(l.nq, i), !.wrote = TRUE]]
          /\ pc' = [pc EXCEPT ![p] = NotifyPc(RemoveAt(l.nq, i), l.ret)]
  /\ UNCHANGED <<matches, teams, trophies, now, calls, settleRuns, okSubmit>>

\* players.get(email) rejects: .catch(() => null) turns it into a missing
\* player and the request ends without a write.
NotifyGetFails(p) ==
  /\ pc[p] = "notify"
  /\ \E i \in 1..Len(Head(loc[p].nq)) :
       LET l == loc[p]
       IN /\ ~Head(l.nq)[i].got
          /\ loc' = [loc EXCEPT ![p] = [l EXCEPT !.nq = RemoveAt(l.nq, i)]]
          /\ pc' = [pc EXCEPT ![p] = NotifyPc(RemoveAt(l.nq, i), l.ret)]
  /\ UNCHANGED <<matches, teams, players, trophies, now, calls,
                 settleRuns, okSubmit>>

\* players.upsert(email, player) rejects: sendNotification has no catch of its
\* own, so the rejection reaches the calling handler's catch block, which
\* answers 500.  (For a call with one recipient; no other request of the call is
\* then still in flight.)
NotifyPutFails(p) ==
  /\ p \in Procs
  /\ pc[p] = "notify"
  /\ Len(Head(loc[p].nq)) = 1
  /\ Head(loc[p].nq)[1].got
  /\ loc' = [loc EXCEPT ![p] = Finish(@, "NotifyFailed")]
  /\ pc' = [pc EXCEPT ![p] = "done"]
  /\ UNCHANGED <<matches, teams, players, trophies, now, calls,
                 settleRuns, okSubmit>>

(* ---------------------------------------------------------- POST /match  *)

\* The ids uuidv4() gives the matches of the behaviour, and the opponentTeamId
\* value of a request body that names no team.
MatchIds == <<"m1", "m2">>
NoTeam == "Z"

\* A call of POST /match by one of callers, inviting one of opponents with one
\* of rosters selected.  Only handler slot p1 serves these calls, one at a time.
CallCreate(p, callers, opponents, rosters) ==
  /\ p = "p1"
  /\ pc[p] \in {"idle", "done"}
  /\ calls < MaxCalls
  /\ \E c \in callers, o \in opponents, roster \in rosters :
       loc' = [loc EXCEPT ![p] =
                 [IdleLoc EXCEPT !.kind = "create", !.caller = c,
                                 !.playersSelected = roster,
                                 !.opponentTeamId = o]]
  /\ pc' = [pc EXCEPT ![p] = "c_query"]
  /\ calls' = calls + 1
  /\ UNCHANGED <<matches, teams, players, trophies, now, settleRuns, okSubmit>>

\* A finished POST /match keeps the id it gave its match.
CreateFinish(l, result) ==
  [Finish(l, result) EXCEPT !.matchId = l.matchId,
                            !.opponentTeamId = l.opponentTeamId]

\* SELECT t.* FROM teams t WHERE t.captain = $email; 403 when there is no row;
\* const matchId = uuidv4(); matchData
CreateQuery(p) ==
  /\ pc[p] = "c_query"
  /\ LET l == loc[p]
         mine == {t \in TeamIds : teams[t].captain = l.caller}
         fresh == CHOOSE i \in 1..Len(MatchIds) :
                    /\ MatchIds[i] \notin DOMAIN matches
                    /\ \A j \in 1..(i - 1) : MatchIds[j] \in DOMAIN matches
     IN IF mine = {}
          THEN /\ loc' = [loc EXCEPT ![p] = CreateFinish(l, "Unauthorized")]
               /\ pc' = [pc EXCEPT ![p] = "done"]
          ELSE /\ loc' = [loc EXCEPT ![p] =
                            [l EXCEPT !.matchId = MatchIds[fresh],
                                      !.match = NewMatch(Trophy.id, l.playersSelected)]]
               /\ pc' = [pc EXCEPT ![p] = "c_insert"]
  /\ UNCHANGED <<matches, teams, players, trophies, now, calls,
                 settleRuns, okSubmit>>

\* await matches.insert(matchId, matchData)
CreateInsert(p) ==
  /\ pc[p] = "c_insert"
  /\ matches' = [id \in DOMAIN matches \cup {loc[p].matchId} |->
                   IF id = loc[p].matchId THEN loc[p].match ELSE matches[id]]
  /\ loc' = [loc EXCEPT ![p] = [@ EXCEPT !.wrote = TRUE]]
  /\ pc' = [pc EXCEPT ![p] = "c_team"]
  /\ UNCHANGED <<teams, players, trophies, now, calls, settleRuns, okSubmit>>

\* const oppTeamDoc = await teams.get(opponentTeamId): rejects for an id no team
\* has, and the catch block answers 500; else sendNotification(oppTeam.captain)
CreateOppTeam(p) ==
  /\ pc[p] = "c_team"
  /\ LET l == loc[p]
     IN IF l.opponentTeamId \in DOMAIN teams
          THEN LET q == NotifRequests(<<teams[l.opponentTeamId].captain>>,
                                      "match_invite")
               IN /\ loc' = [loc EXCEPT ![p] = EnterNotify(l, q, "c_done")]
                  /\ pc' = [pc EXCEPT ![p] = NotifyPc(q, "c_done")]
          ELSE /\ loc' = [loc EXCEPT ![p] = CreateFinish(l, "ServerError")]
               /\ pc' = [pc EXCEPT ![p] = "done"]
  /\ UNCHANGED <<matches, teams, players, trophies, now, calls,
                 settleRuns, okSubmit>>

\* players.upsert inside sendNotification rejects: the catch block answers 500
CreateNotifyFails(p) ==
  /\ pc[p] = "notify"
  /\ loc[p].kind = "create"
  /\ Len(Head(loc[p].nq)) = 1
  /\ Head(loc[p].nq)[1].got
  /\ loc' = [loc EXCEPT ![p] = CreateFinish(@, "NotifyFailed")]
  /\ pc' = [pc EXCEPT ![p] = "done"]
  /\ UNCHANGED <<matches, teams, players, trophies, now, calls,
                 settleRuns, okSubmit>>

\* res.json({ success: true, message: "Match created and invitation sent" })
CreateDone(p) ==
  /\ pc[p] = "c_done"
  /\ loc' = [loc EXCEPT ![p] = CreateFinish(@, "ok")]
  /\ pc' = [pc EXCEPT ![p] = "done"]
  /\ UNCHANGED <<matches, teams, players, trophies, now, calls,
                 settleRuns, okSubmit>>

Create(p) ==
  \/ CreateQuery(p)
  \/ CreateInsert(p)
  \/ CreateOppTeam(p)
  \/ CreateDone(p)

(* ------------------------------------------- PUT /matches/:id/response   *)

\* A request is served by the first free handler slot.
Free(p) ==
  /\ p \in Procs
  /\ pc[p] \in {"idle", "done"}
  /\ p = "p2" => pc["p1"] \notin {"idle", "done"}

\* A call of PUT /matches/:id/response by one of callers with one of actions,
\* selecting one of rosters.
CallRespond(p, callers, actions, rosters) ==
  /\ Free(p)
  /\ calls < MaxCalls
  /\ \E c \in callers, a \in actions, r \in rosters :
       loc' = [loc EXCEPT ![p] =
                 [IdleLoc EXCEPT !.kind = "respond", !.caller = c, !.action = a,
                                 !.playersSelected = r]]
  /\ pc' = [pc EXCEPT ![p] = "r_get"]
  /\ calls' = calls + 1
  /\ UNCHANGED <<matches, teams, players, trophies, now, settleRuns, okSubmit>>

\* const matchDoc = await matches.get(req.params.id); const match = matchDoc.content;
RespondGet(p) ==
  /\ pc[p] = "r_get"
  /\ loc' = [loc EXCEPT ![p] = [@ EXCEPT !.match = matches[M],
                                         !.rd = matches[M].status]]
  /\ pc' = [pc EXCEPT ![p] = "r_team"]
  /\ UNCHANGED <<matches, teams, players, trophies, now, calls,
                 settleRuns, okSubmit>>

\* Which caller may answer the invitation: the captain of the invited team.
MayRespond(oppTeam, caller) == oppTeam.captain = caller

\* const oppTeamDoc = await teams.get(match.opponentTeamId); captain check
RespondTeam(p) ==
  /\ pc[p] = "r_team"
  /\ LET l == loc[p]
         oppTeam == teams["A"]
     IN IF MayRespond(oppTeam, l.caller)
          THEN /\ loc' = [loc EXCEPT ![p] = [l EXCEPT !.oppTeam = oppTeam]]
               /\ pc' = [pc EXCEPT ![p] = "r_cget"]
          ELSE /\ loc' = [loc EXCEPT ![p] = Finish(l, "Unauthorized")]
               /\ pc' = [pc EXCEPT ![p] = "done"]
  /\ UNCHANGED <<matches, teams, players, trophies, now, calls,
                 settleRuns, okSubmit>>

\* Variant of RemoveInvite that also charges the captain a point.
RemoveInviteCharging(doc) ==
  [doc EXCEPT !.notifications["match_invite"] = 0, !.points = @ - 1]

\* notifications.filter(n => n.matchId !== match.id || n.type !== "match_invite")
RemoveInvite(doc) ==
  [doc EXCEPT !.notifications["match_invite"] = 0]

\* const oppCaptainDoc = await players.get(oppTeam.captain); filter
RespondCaptainGet(p) ==
  /\ pc[p] = "r_cget"
  /\ LET l == loc[p]
     IN loc' = [loc EXCEPT ![p] =
                  [l EXCEPT !.player = RemoveInvite(players[l.oppTeam.captain]),
                            !.who = l.oppTeam.captain]]
  /\ pc' = [pc EXCEPT ![p] = "r_cput"]
  /\ UNCHANGED <<matches, teams, players, trophies, now, calls,
                 settleRuns, okSubmit>>

\* Variant of RespondStatus in which an accepted invitation finalizes the match.
RespondStatusFinalizes(match, action) ==
  IF action = "reject" THEN "cancelled" ELSE "final"

\* The status the response writes: reject -> cancelled, accept -> upcoming.
RespondStatus(match, action) ==
  IF action = "reject" THEN "cancelled" ELSE "upcoming"

\* await players.upsert(oppTeam.captain, oppCaptain); then the action's branch
RespondCaptainPut(p) ==
  /\ pc[p] = "r_cput"
  /\ LET l == loc[p]
         l1 == [l EXCEPT !.player = NewPlayer, !.who = "none", !.wrote = TRUE]
     IN /\ players' = [players EXCEPT ![l.who] = l.player]
        /\ CASE l.action = "reject" ->
                  /\ loc' = [loc EXCEPT ![p] =
                       [l1 EXCEPT !.match.status = RespondStatus(l.match, "reject")]]
                  /\ pc' = [pc EXCEPT ![p] = "r_myteam"]
             [] l.action = "accept" ->
                  /\ loc' = [loc EXCEPT ![p] =
                       [l1 EXCEPT !.match.status = RespondStatus(l.match, "accept"),
                                  !.match.opponentPlayers = l.playersSelected]]
                  /\ pc' = [pc EXCEPT ![p] =
                       IF l.match.trophyId # "none" THEN "r_trophy" ELSE "r_myteam"]
             [] OTHER ->
                  /\ loc' = [loc EXCEPT ![p] = Finish(l1, "ValidationError")]
                  /\ pc' = [pc EXCEPT ![p] = "done"]
  /\ UNCHANGED <<matches, teams, trophies, now, calls, settleRuns, okSubmit>>

\* Variant of FeeShare that charges every player half the fee.
FeeShareWhole(fee, roster) == fee \div 2

\* Math.floor(fee / 2 / (roster.length || 1))
FeeShare(fee, roster) ==
  fee \div (2 * (IF Len(roster) = 0 THEN 1 ELSE Len(roster)))

\* The deductions of the two fee loops, my roster first.
FeeWork(match, fee) ==
  [i \in 1..Len(match.myPlayers) |->
     [pid |-> match.myPlayers[i], share |-> FeeShare(fee, match.myPlayers)]]
  \o
  [i \in 1..Len(match.opponentPlayers) |->
     [pid |-> match.opponentPlayers[i],
      share |-> FeeShare(fee, match.opponentPlayers)]]

\* Variant of TrophyResolves for which every reference resolves.
TrophyResolvesAlways(trophyId) == TRUE

\* trophies.get(match.trophyId).catch(() => null) yields a document
TrophyResolves(trophyId) == trophyId \in trophies

\* const trophyDoc = await trophies.get(match.trophyId).catch(() => null)
RespondTrophy(p) ==
  /\ pc[p] = "r_trophy"
  /\ LET l == loc[p]
         w == IF TrophyResolves(l.match.trophyId)
                THEN FeeWork(l.match, TrophyDoc(l.match.trophyId).fee) ELSE <<>>
     IN /\ loc' = [loc EXCEPT ![p] = [l EXCEPT !.work = w]]
        /\ pc' = [pc EXCEPT ![p] = IF w = <<>> THEN "r_myteam" ELSE "r_fget"]
  /\ UNCHANGED <<matches, teams, players, trophies, now, calls,
                 settleRuns, okSubmit>>

FeePc(w) == IF w = <<>> THEN "r_myteam" ELSE "r_fget"

\* const pDoc = await players.get(pid).catch(() => null); player.points -= share
RespondFeeGet(p) ==
  /\ pc[p] = "r_fget"
  /\ LET l == loc[p]
         h == Head(l.work)
     IN IF h.pid \in DOMAIN players
          THEN /\ loc' = [loc EXCEPT ![p] =
                    [l EXCEPT !.player = [players[h.pid] EXCEPT !.points = @ - h.share],
                              !.who = h.pid]]
               /\ pc' = [pc EXCEPT ![p] = "r_fput"]
          ELSE /\ loc' = [loc EXCEPT ![p] = [l EXCEPT !.work = Tail(l.work)]]
               /\ pc' = [pc EXCEPT ![p] = FeePc(Tail(l.work))]
  /\ UNCHANGED <<matches, teams, players, trophies, now, calls,
                 settleRuns, okSubmit>>

\* await players.upsert(pid, player)
RespondFeePut(p) ==
  /\ pc[p] = "r_fput"
  /\ LET l == loc[p]
     IN /\ players' = [players EXCEPT ![l.who] = l.player]
        /\ loc' = [loc EXCEPT ![p] =
                     [l EXCEPT !.work = Tail(l.work), !.player = NewPlayer,
                               !.who = "none", !.wrote = TRUE]]
        /\ pc' = [pc EXCEPT ![p] = FeePc(Tail(l.work))]
  /\ UNCHANGED <<matches, teams, trophies, now, calls, settleRuns, okSubmit>>

\* const myTeamDoc = await teams.get(match.myTeamId); sendNotification(allPlayers, ...)
RespondMyTeam(p) ==
  /\ pc[p] = "r_myteam"
  /\ LET l == loc[p]
         allPlayers == teams["H"].teamPlayers \o l.oppTeam.teamPlayers
         q == NotifRequests(allPlayers,
                IF l.action = "reject" THEN "cancelled" ELSE "upcoming")
     IN /\ loc' = [loc EXCEPT ![p] = EnterNotify(l, q, "r_save")]
        /\ pc' = [pc EXCEPT ![p] = NotifyPc(q, "r_save")]
  /\ UNCHANGED <<matches, teams, players, trophies, now, calls,
                 settleRuns, okSubmit>>

\* await matches.upsert(match.id, match); return res.json({ success: true, ... })
RespondSave(p) ==
  /\ pc[p] = "r_save"
  /\ matches' = [matches EXCEPT ![M] = loc[p].match]
  /\ loc' = [loc EXCEPT ![p] = Finish([@ EXCEPT !.wrote = TRUE], "ok")]
  /\ pc' = [pc EXCEPT ![p] = "done"]
  /\ UNCHANGED <<teams, players, trophies, now, calls, settleRuns, okSubmit>>

Respond(p) ==
  \/ RespondGet(p)
  \/ RespondTeam(p)
  \/ RespondCaptainGet(p)
  \/ RespondCaptainPut(p)
  \/ RespondTrophy(p)
  \/ RespondFeeGet(p)
  \/ RespondFeePut(p)
  \/ RespondMyTeam(p)
  \/ RespondSave(p)

(* ------------------------------------------- PUT /matches/:id/finalize   *)

\* The captain of the other side, and a registered player of neither team.
Other(c) == IF c = "ch" THEN "ca" ELSE "ch"
Stranger == "x"

\* The caller's team mate in a side of two.
Mate(c) == IF c = "ch" THEN "h2" ELSE "a2"

\* req.body.teamStats: an array of stat records, or something that is no array
\* "empty": [] (also what an unparsable string becomes); "goal" / "nogoal": one
\* record for the caller; "bad": a payload that is no array; "brace": the
\* caller and a team mate with two goals each, the mate with an assist;
\* "negative": a negative goal count; "cards": twenty red cards; "twice": two
\* records for the caller; "outsider": the caller and a player of neither
\* roster; "opponent": the caller and the other side's captain
StatsOf(shape, c) ==
  CASE shape = "empty" -> [kind |-> "array", recs |-> <<>>]
    [] shape = "goal" ->
         [kind |-> "array", recs |-> <<StatRec(c, 1, 0)>>]
    [] shape = "nogoal" ->
         [kind |-> "array", recs |-> <<StatRec(c, 0, 0)>>]
    [] shape = "brace" ->
         [kind |-> "array", recs |-> <<StatRec(c, 2, 0), StatRec(Mate(c), 2, 1)>>]
    [] shape = "negative" ->
         [kind |-> "array", recs |-> <<StatRec(c, -100, 0)>>]
    [] shape = "cards" ->
         [kind |-> "array", recs |-> <<[StatRec(c, 0, 0) EXCEPT !.redCards = 20]>>]
    [] shape = "twice" ->
         [kind |-> "array", recs |-> <<StatRec(c, 1, 0), StatRec(c, 1, 0)>>]
    [] shape = "outsider" ->
         [kind |-> "array", recs |-> <<StatRec(c, 1, 0), StatRec(Stranger, 0, 0)>>]
    [] shape = "opponent" ->
         [kind |-> "array", recs |-> <<StatRec(c, 1, 0), StatRec(Other(c), 0, 0)>>]
    [] OTHER -> [kind |-> "bad", recs |-> <<>>]

\* A call of PUT /matches/:id/finalize by one of callers, with teamStats of one
\* of shapes and teamRate one of rates (0 stands for an absent rating).
CallSubmit(p, callers, shapes, rates) ==
  /\ Free(p)
  /\ calls < MaxCalls
  /\ \E c \in callers, r \in rates, sh \in shapes :
         loc' = [loc EXCEPT ![p] =
                   [IdleLoc EXCEPT !.kind = "submit", !.caller = c,
                                   !.teamStats = StatsOf(sh, c), !.teamRate = r]]
  /\ pc' = [pc EXCEPT ![p] = "s_get"]
  /\ calls' = calls + 1
  /\ UNCHANGED <<matches, teams, players, trophies, now, settleRuns, okSubmit>>

\* Variant of IsActive without the status check.
IsActiveAlways(status) == TRUE

\* ["live", "upcoming", "completed"].includes(match.status)
IsActive(status) == status \in ActiveStatuses

\* const matchDoc = await matches.get(req.params.id); status check
SubmitGet(p) ==
  /\ pc[p] = "s_get"
  /\ LET l == [loc[p] EXCEPT !.match = matches[M], !.rd = matches[M].status]
     IN IF IsActive(matches[M].status)
          THEN /\ loc' = [loc EXCEPT ![p] = l]
               /\ pc' = [pc EXCEPT ![p] = "s_myteam"]
          ELSE /\ loc' = [loc EXCEPT ![p] = Finish(l, "InvalidState")]
               /\ pc' = [pc EXCEPT ![p] = "done"]
  /\ UNCHANGED <<matches, teams, players, trophies, now, calls,
                 settleRuns, okSubmit>>

\* const myTeamDoc = await teams.get(match.myTeamId)
SubmitMyTeam(p) ==
  /\ pc[p] = "s_myteam"
  /\ loc' = [loc EXCEPT ![p] = [@ EXCEPT !.myTeam = teams["H"]]]
  /\ pc' = [pc EXCEPT ![p] = "s_oppteam"]
  /\ UNCHANGED <<matches, teams, players, trophies, now, calls,
                 settleRuns, okSubmit>>

\* Variant of SubmittingTeam that takes every caller who is not the away captain
\* for the home captain.
SubmittingTeamAnyone(myTeam, oppTeam, caller) ==
  IF oppTeam.captain = caller THEN "oppTeamStats" ELSE "myTeamStats"

\* let submittingTeam = null; if (myTeam.captain === email) ...; if (oppTeam.captain === email) ...
SubmittingTeam(myTeam, oppTeam, caller) ==
  IF oppTeam.captain = caller THEN "oppTeamStats"
  ELSE IF myTeam.captain = caller THEN "myTeamStats"
  ELSE "none"

\* teamRate && teamRate >= 1 && teamRate <= 5
RateAccepted(teamRate) == teamRate # 0 /\ teamRate >= 1 /\ teamRate <= 5

\* ratingCount += 1; ratingAvg = Number(((avg * (count - 1) + rate) / count).toFixed(2))
\* ratingAvg is kept in hundredths.
Rated(team, teamRate) ==
  LET count == team.ratingCount + 1
      num == team.ratingAvg * (count - 1) + 100 * teamRate
  IN [team EXCEPT !.ratingCount = count,
                  !.ratingAvg = (2 * num + count) \div (2 * count)]

\* Variant of WithSubmission that keeps the array of a side that has submitted.
WithSubmissionLocked(match, side, teamStats) ==
  IF side = "myTeamStats"
    THEN IF match.myTeamSubmitted THEN match
         ELSE [match EXCEPT !.myTeamStats = teamStats, !.myTeamSubmitted = TRUE]
    ELSE IF match.oppTeamSubmitted THEN match
         ELSE [match EXCEPT !.oppTeamStats = teamStats, !.oppTeamSubmitted = TRUE]

\* match.<side>Stats = teamStats; match.<side>Submitted = true
WithSubmission(match, side, teamStats) ==
  IF side = "myTeamStats"
    THEN [match EXCEPT !.myTeamStats = teamStats, !.myTeamSubmitted = TRUE]
    ELSE [match EXCEPT !.oppTeamStats = teamStats, !.oppTeamSubmitted = TRUE]

\* const oppTeamDoc = await teams.get(match.opponentTeamId); captain check; save stats
SubmitOppTeam(p) ==
  /\ pc[p] = "s_oppteam"
  /\ LET l == [loc[p] EXCEPT !.oppTeam = teams["A"]]
         side == SubmittingTeam(l.myTeam, l.oppTeam, l.caller)
         l1 == [l EXCEPT !.match = WithSubmission(l.match, side, l.teamStats)]
     IN IF side = "none"
          THEN /\ loc' = [loc EXCEPT ![p] = Finish(l, "Unauthorized")]
               /\ pc' = [pc EXCEPT ![p] = "done"]
          ELSE IF RateAccepted(l.teamRate)
            THEN /\ loc' = [loc EXCEPT ![p] =
                      IF side = "myTeamStats"
                        THEN [l1 EXCEPT !.oppTeam = Rated(l.oppTeam, l.teamRate)]
                        ELSE [l1 EXCEPT !.myTeam = Rated(l.myTeam, l.teamRate)]]
                 /\ pc' = [pc EXCEPT ![p] = "s_rate"]
            ELSE /\ loc' = [loc EXCEPT ![p] = l1]
                 /\ pc' = [pc EXCEPT ![p] = "s_save"]
  /\ UNCHANGED <<matches, teams, players, trophies, now, calls,
                 settleRuns, okSubmit>>

\* await teams.upsert(oppTeam.id, oppTeam)  /  await teams.upsert(myTeam.id, myTeam)
SubmitRate(p) ==
  /\ pc[p] = "s_rate"
  /\ LET l == loc[p]
     IN teams' = IF SubmittingTeam(l.myTeam, l.oppTeam, l.caller) = "myTeamStats"
                   THEN [teams EXCEPT !["A"] = l.oppTeam]
                   ELSE [teams EXCEPT !["H"] = l.myTeam]
  /\ loc' = [loc EXCEPT ![p] = [@ EXCEPT !.wrote = TRUE]]
  /\ pc' = [pc EXCEPT ![p] = "s_save"]
  /\ UNCHANGED <<matches, players, trophies, now, calls, settleRuns, okSubmit>>

\* if (!match.myTeamSubmitted || !match.oppTeamSubmitted) return "waiting"
BothSubmitted(match) == match.myTeamSubmitted /\ match.oppTeamSubmitted

\* await matches.upsert(match.id, match); wait for the other captain or go on
SubmitSave(p) ==
  /\ pc[p] = "s_save"
  /\ LET l == [loc[p] EXCEPT !.wrote = TRUE]
     IN /\ matches' = [matches EXCEPT ![M] = l.match]
        /\ IF BothSubmitted(l.match)
             THEN /\ loc' = [loc EXCEPT ![p] = l]
                  /\ pc' = [pc EXCEPT ![p] = "s_trophy"]
                  /\ UNCHANGED okSubmit
             ELSE /\ loc' = [loc EXCEPT ![p] = Finish(l, "waiting")]
                  /\ pc' = [pc EXCEPT ![p] = "done"]
                  /\ okSubmit' = okSubmit \cup {l.caller}
  /\ UNCHANGED <<teams, players, trophies, now, calls, settleRuns>>

(* ---------------------------------------------------------- settlement   *)

\* stats.reduce((s, p) => s + (p.goals || 0), 0)
RECURSIVE SumGoals(_)
SumGoals(recs) ==
  IF recs = <<>> THEN 0 ELSE Head(recs).goals + SumGoals(Tail(recs))

\* the reduce's initial value { goals: 0, assists: 0 }: it has no playerId
MotmBaseline == [playerId |-> "none", goals |-> 0, assists |-> 0]

\* Variant of BetterThan that looks at goals only.
BetterThanGoalsOnly(p, best) == p.goals > best.goals

\* p.goals > best.goals || (p.goals === best.goals && p.assists > best.assists)
BetterThan(p, best) ==
  \/ p.goals > best.goals
  \/ (p.goals = best.goals /\ p.assists > best.assists)

RECURSIVE MotmFrom(_, _)
MotmFrom(best, recs) ==
  IF recs = <<>> THEN best
  ELSE MotmFrom(IF BetterThan(Head(recs), best) THEN Head(recs) ELSE best,
                Tail(recs))

\* const allStats = [...match.myTeamStats, ...match.oppTeamStats]
AllStats(match) == match.myTeamStats.recs \o match.oppTeamStats.recs

\* let motm = allStats.reduce(..., { goals: 0, assists: 0 })
Motm(match) == MotmFrom(MotmBaseline, AllStats(match))

\* Variant of MatchResult that gives a level match to the home team.
MatchResultHomeTies(match) ==
  LET myGoals == SumGoals(match.myTeamStats.recs)
      oppGoals == SumGoals(match.oppTeamStats.recs)
  IN [set |-> TRUE, myGoals |-> myGoals, oppGoals |-> oppGoals,
      winner |-> IF myGoals >= oppGoals THEN "H" ELSE "A",
      motm |-> Motm(match).playerId]

\* winnerTeam / draw from the goal totals, and the result payload
MatchResult(match) ==
  LET myGoals == SumGoals(match.myTeamStats.recs)
      oppGoals == SumGoals(match.oppTeamStats.recs)
  IN [set |-> TRUE, myGoals |-> myGoals, oppGoals |-> oppGoals,
      winner |-> IF myGoals > oppGoals THEN "H"
                 ELSE IF oppGoals > myGoals THEN "A" ELSE "draw",
      motm |-> Motm(match).playerId]

\* Variant of PerPlayer that shares a draw out as a defeat.
PerPlayerNoDraw(trophy, isWinner, isDraw, n) ==
  IF isWinner THEN (trophy.fee * trophy.distribution.win) \div (100 * n)
  ELSE (trophy.fee * trophy.distribution.lose) \div (100 * n)

\* Variant of PerPlayer that credits the side's whole share to every record.
PerPlayerWhole(trophy, isWinner, isDraw, n) ==
  IF isDraw THEN trophy.fee \div 2
  ELSE IF isWinner THEN (trophy.fee * trophy.distribution.win) \div 100
  ELSE (trophy.fee * trophy.distribution.lose) \div 100

\* Math.floor(share / stats.length), share = draw ? pool / 2 : pool * pct / 100
PerPlayer(trophy, isWinner, isDraw, n) ==
  IF isDraw THEN trophy.fee \div (2 * n)
  ELSE IF isWinner THEN (trophy.fee * trophy.distribution.win) \div (100 * n)
  ELSE (trophy.fee * trophy.distribution.lose) \div (100 * n)

\* The iterations of distributePoints(team, stats, share, isWinner, isDraw)
DistWork(trophy, team, stats, res) ==
  [i \in 1..Len(stats.recs) |->
     [team |-> team, stat |-> stats.recs[i],
      isWinner |-> res.winner = team, isDraw |-> res.winner = "draw",
      perPlayer |-> PerPlayer(trophy, res.winner = team, res.winner = "draw",
                              Len(stats.recs))]]

Min(a, b) == IF a < b THEN a ELSE b
Max(a, b) == IF a > b THEN a ELSE b

\* n / d rounded to the nearest integer, halves away from zero: what toFixed
\* does to the decimal value (the model's arithmetic is exact where the
\* program's is in doubles).
Rounded(n, d) ==
  IF n >= 0 THEN (2 * n + d) \div (2 * d) ELSE -((2 * (-n) + d) \div (2 * d))

\* skillValues, in hundredths
SkillValues ==
  [goalkeeper |-> [reflexes |-> 30, diving |-> 25, handling |-> 20,
                   positioning |-> 20, kicking |-> 15, speed |-> 10],
   defender |-> [defence |-> 30, physical |-> 25, passing |-> 20,
                 pace |-> 15, dribbling |-> 10, shooting |-> 5],
   midfielder |-> [passing |-> 30, dribbling |-> 25, pace |-> 20,
                   defence |-> 15, shooting |-> 15, physical |-> 10],
   forward |-> [shooting |-> 30, pace |-> 25, dribbling |-> 20,
                passing |-> 15, physical |-> 10, defence |-> 5],
   goals |-> 50, assists |-> 40, motmBonus |-> 100, cleanSheet |-> 50]

\* skillValues[player.position.toLowerCase()]
PositionGains(position) ==
  CASE position = "Goalkeeper" -> SkillValues.goalkeeper
    [] position = "Defender" -> SkillValues.defender
    [] position = "Midfielder" -> SkillValues.midfielder
    [] position = "Forward" -> SkillValues.forward

\* Variant of GetMultiplier without diminishing returns.
GetMultiplierFlat(value) == IF value < 990 THEN 100 ELSE 0

\* getMultiplier(value), in hundredths, of a skill value in tenths
GetMultiplier(value) ==
  IF value < 700 THEN 100
  ELSE IF value < 800 THEN 70
  ELSE IF value < 850 THEN 50
  ELSE IF value < 900 THEN 30
  ELSE IF value < 950 THEN 15
  ELSE IF value < 990 THEN 5
  ELSE 0

\* improveSkill(player, skill, baseGain): the new value of a skill now at
\* current (tenths) for a base gain in hundredths.
\* Math.min(99, current + baseGain * multiplier), then toFixed(1)
ImproveSkill(current, baseGain) ==
  Rounded(Min(990000, current * 1000 + baseGain * GetMultiplier(current)), 1000)

\* the six skills updateOverall and overallPerformance average
RatedSkills(position) ==
  IF position = "Goalkeeper" THEN KeeperSkills ELSE OutfieldSkills

RECURSIVE SumSkills(_, _)
SumSkills(skills, names) ==
  IF names = {} THEN 0
  ELSE LET sk == CHOOSE x \in names : TRUE
       IN skills[sk] + SumSkills(skills, names \ {sk})

\* The skills after one settlement: the position's gains, then the gains for
\* goals, assists, a clean sheet and Man of the Match, each through improveSkill.
ImprovedSkills(doc, stat, isWinner, isMotm, oppGoals) ==
  LET gains == IF doc.position \in Positions THEN PositionGains(doc.position)
               ELSE [x \in {} |-> 0]
      s1 == [sk \in AllSkills |->
               IF sk \in DOMAIN gains THEN ImproveSkill(doc.skills[sk], gains[sk])
               ELSE doc.skills[sk]]
      s2 == IF stat.goals # 0
              THEN [s1 EXCEPT !["shooting"] =
                      ImproveSkill(@, stat.goals * SkillValues.goals)]
              ELSE s1
      s3 == IF stat.assists # 0
              THEN [s2 EXCEPT !["passing"] =
                      ImproveSkill(@, stat.assists * SkillValues.assists)]
              ELSE s2
      s4 == IF isWinner /\ doc.position = "Defender" /\ oppGoals = 0
              THEN [s3 EXCEPT !["defence"] = ImproveSkill(@, SkillValues.cleanSheet)]
              ELSE s3
  IN IF isMotm
       THEN [s4 EXCEPT !["dribbling"] = ImproveSkill(@, SkillValues.motmBonus)]
       ELSE s4

\* statsScore = goals*5 + assists*3 - yellowCards*2 - redCards*5 (+10 if MOTM)
StatsScore(stat, isMotm) ==
  stat.goals * 5 + stat.assists * 3 - stat.yellowCards * 2 - stat.redCards * 5
  + (IF isMotm THEN 10 ELSE 0)

\* Math.min(100, skillAvg * 0.6 + statsScore * 1 + opponentRating * 0.4), in
\* hundredths: skillAvg * 0.6 is the sum of the six skills (tenths) / 60 * 0.6.
OverallPerformance(skills, position, stat, isMotm) ==
  LET opponentRating == IF stat.opponentTeamRating = 0 THEN 50
                        ELSE stat.opponentTeamRating
  IN Min(10000, SumSkills(skills, RatedSkills(position))
                + 100 * StatsScore(stat, isMotm) + 40 * opponentRating)

\* Size matchHistory is cut back to.
HistoryCap == 10

\* Variant of PushHistory that drops the newest entry of a full history.
PushHistoryDropNewest(history, entry) ==
  IF Len(history) + 1 > HistoryCap THEN history ELSE Append(history, entry)

\* matchHistory.push(entry); if (matchHistory.length > 10) matchHistory.shift()
PushHistory(history, entry) ==
  LET h == Append(history, entry)
  IN IF Len(h) > HistoryCap THEN Tail(h) ELSE h

\* Variant of Aura without the cap.
AuraUncapped(auraPoints, isMotm) ==
  IF isMotm THEN auraPoints + 100 ELSE Max(0, auraPoints - 100)

\* MOTM: Math.min(999, aura + 100); otherwise Math.max(0, aura - 100)
Aura(auraPoints, isMotm) ==
  IF isMotm THEN Min(999, auraPoints + 100) ELSE Max(0, auraPoints - 100)

\* The body of distributePoints' loop on one player document (the date of the
\* matchHistory entry, a wall-clock string, is left out)
SettlePlayer(doc, w, res, trophy) ==
  LET stat == w.stat
      isMotm == res.motm # "none" /\ res.motm = stat.playerId
      skills == ImprovedSkills(doc, stat, w.isWinner, isMotm, res.oppGoals)
      perf == OverallPerformance(skills, doc.position, stat, isMotm)
      bonus == (IF stat.goals > 0 THEN stat.goals * trophy.bonuses.goal ELSE 0)
             + (IF stat.assists > 0 THEN stat.assists * trophy.bonuses.assist ELSE 0)
             + (IF isMotm THEN trophy.bonuses.motm ELSE 0)
      won == IF w.isWinner THEN <<trophy.id>> ELSE <<>>
      best == IF isMotm THEN <<"MOTM_" \o M>> ELSE <<>>
  IN [doc EXCEPT
        !.matches = @ + 1,
        !.goals = @ + stat.goals,
        !.assists = @ + stat.assists,
        !.redCards = @ + stat.redCards,
        !.yellowCards = @ + stat.yellowCards,
        !.wins = IF w.isWinner THEN @ + 1 ELSE @,
        !.draws = IF ~w.isWinner /\ w.isDraw THEN @ + 1 ELSE @,
        !.losses = IF ~w.isWinner /\ ~w.isDraw THEN @ + 1 ELSE @,
        !.skills = skills,
        !.overalRating = Rounded(SumSkills(skills, RatedSkills(doc.position)), 6),
        !.overallPerformance = perf,
        !.matchHistory =
           PushHistory(@, [result |-> IF w.isDraw THEN "draw"
                                      ELSE IF w.isWinner THEN "win" ELSE "lose",
                           overallPerformance |-> perf]),
        !.points = @ + w.perPlayer + bonus,
        !.achievements = @ \o won \o best,
        !.auraPoints = Aura(@, isMotm)]

\* updateTeam(team, isWinner, isLoser, isDraw)
UpdateTeam(team, id, res, trophy) ==
  LET isDraw == res.winner = "draw"
      isWinner == res.winner = id
      isLoser == ~isDraw /\ ~isWinner
  IN [team EXCEPT !.matchesPlayed = @ + 1,
                  !.wins = IF isWinner THEN @ + 1 ELSE @,
                  !.achievements = IF isWinner THEN Append(@, trophy.id) ELSE @,
                  !.losses = IF isLoser THEN @ + 1 ELSE @,
                  !.draws = IF isDraw THEN @ + 1 ELSE @]

DistPc(w) == IF w = <<>> THEN "s_tmy" ELSE "s_pget"

\* const trophyDoc = await trophies.get(match.trophyId).catch(() => null);
\* goal totals, winner, MOTM (a stat payload that is no array makes reduce throw)
SubmitTrophy(p) ==
  /\ pc[p] = "s_trophy"
  /\ LET l == loc[p]
         res == MatchResult(l.match)
         trophy == TrophyDoc(l.match.trophyId)
         w == DistWork(trophy, "H", l.match.myTeamStats, res)
              \o DistWork(trophy, "A", l.match.oppTeamStats, res)
         q == IF res.motm # "none"
                THEN NotifRequests(<<res.motm>>, "motm") ELSE <<>>
     IN IF ~TrophyResolves(l.match.trophyId)
          THEN /\ loc' = [loc EXCEPT ![p] = Finish(l, "TrophyNotFound")]
               /\ pc' = [pc EXCEPT ![p] = "done"]
               /\ UNCHANGED settleRuns
          ELSE IF l.match.myTeamStats.kind # "array"
                  \/ l.match.oppTeamStats.kind # "array"
            THEN /\ loc' = [loc EXCEPT ![p] = Finish(l, "ServerError")]
                 /\ pc' = [pc EXCEPT ![p] = "done"]
                 /\ UNCHANGED settleRuns
            ELSE /\ loc' = [loc EXCEPT ![p] =
                              EnterNotify([l EXCEPT !.res = res, !.work = w],
                                          q, DistPc(w))]
                 /\ pc' = [pc EXCEPT ![p] = NotifyPc(q, DistPc(w))]
                 /\ settleRuns' = settleRuns + 1
  /\ UNCHANGED <<matches, teams, players, trophies, now, calls, okSubmit>>

\* const pDoc = await players.get(stat.playerId).catch(() => null); if (!pDoc) continue;
SubmitPlayerGet(p) ==
  /\ pc[p] = "s_pget"
  /\ LET l == loc[p]
         h == Head(l.work)
     IN IF h.stat.playerId \in DOMAIN players
          THEN /\ loc' = [loc EXCEPT ![p] =
                    [l EXCEPT !.player = SettlePlayer(players[h.stat.playerId], h, l.res,
                                                 TrophyDoc(l.match.trophyId)),
                              !.who = h.stat.playerId]]
               /\ pc' = [pc EXCEPT ![p] = "s_pput"]
          ELSE /\ loc' = [loc EXCEPT ![p] = [l EXCEPT !.work = Tail(l.work)]]
               /\ pc' = [pc EXCEPT ![p] = DistPc(Tail(l.work))]
  /\ UNCHANGED <<matches, teams, players, trophies, now, calls,
                 settleRuns, okSubmit>>

\* await players.upsert(stat.playerId, player); then the two notifications
SubmitPlayerPut(p) ==
  /\ pc[p] = "s_pput"
  /\ LET l == loc[p]
         q == NotifRequests(<<l.who>>, "results") \o NotifRequests(<<l.who>>, "rate")
     IN /\ players' = [players EXCEPT ![l.who] = l.player]
        /\ loc' = [loc EXCEPT ![p] =
                     EnterNotify([l EXCEPT !.work = Tail(l.work),
                                           !.player = NewPlayer, !.who = "none",
                                           !.wrote = TRUE],
                                 q, DistPc(Tail(l.work)))]
        /\ pc' = [pc EXCEPT ![p] = "notify"]
  /\ UNCHANGED <<matches, teams, trophies, now, calls, settleRuns, okSubmit>>

\* await updateTeam(myTeam, ...)
SubmitTeamMy(p) ==
  /\ pc[p] = "s_tmy"
  /\ teams' = [teams EXCEPT !["H"] = UpdateTeam(loc[p].myTeam, "H", loc[p].res,
                                               TrophyDoc(loc[p].match.trophyId))]
  /\ pc' = [pc EXCEPT ![p] = "s_topp"]
  /\ UNCHANGED <<matches, players, trophies, now, loc, calls, settleRuns, okSubmit>>

\* await updateTeam(oppTeam, ...)
SubmitTeamOpp(p) ==
  /\ pc[p] = "s_topp"
  /\ teams' = [teams EXCEPT !["A"] = UpdateTeam(loc[p].oppTeam, "A", loc[p].res,
                                               TrophyDoc(loc[p].match.trophyId))]
  /\ pc' = [pc EXCEPT ![p] = "s_final"]
  /\ UNCHANGED <<matches, players, trophies, now, loc, calls, settleRuns, okSubmit>>

\* match.status = "final"; match.result = {...}
Finalized(match, res) ==
  [match EXCEPT !.status = "final", !.result = res]

\* await matches.upsert(match.id, match); return "Match finalized successfully"
SubmitFinal(p) ==
  /\ pc[p] = "s_final"
  /\ matches' = [matches EXCEPT ![M] = Finalized(loc[p].match, loc[p].res)]
  /\ loc' = [loc EXCEPT ![p] = Finish(@, "finalized")]
  /\ pc' = [pc EXCEPT ![p] = "done"]
  /\ okSubmit' = okSubmit \cup {loc[p].caller}
  /\ UNCHANGED <<teams, players, trophies, now, calls, settleRuns>>

\* A store write of the settlement (players.upsert in distributePoints,
\* teams.upsert in updateTeam, the final matches.upsert) rejects: the handler's
\* catch block answers 500 and what was written before stays written.
SettleWriteFails(p) ==
  /\ pc[p] \in {"s_tmy", "s_pput", "s_topp", "s_final"}
  /\ loc' = [loc EXCEPT ![p] = Finish(@, "WriteFailed")]
  /\ pc' = [pc EXCEPT ![p] = "done"]
  /\ UNCHANGED <<matches, teams, players, trophies, now, calls,
                 settleRuns, okSubmit>>

Submit(p) ==
  \/ SubmitGet(p)
  \/ SubmitMyTeam(p)
  \/ SubmitOppTeam(p)
  \/ SubmitRate(p)
  \/ SubmitSave(p)
  \/ SubmitTrophy(p)
  \/ SubmitPlayerGet(p)
  \/ SubmitPlayerPut(p)
  \/ SubmitTeamMy(p)
  \/ SubmitTeamOpp(p)
  \/ SubmitFinal(p)

(* -------------------------------------- cron: match status updater       *)

\* Variant of SweepStatus that does not wait for the start time.
SweepStatusEarly(row, t) ==
  IF row.status = "upcoming" /\ t < row.endTime
    THEN "live"
  ELSE IF row.status \in {"upcoming", "live"} /\ t >= row.endTime
    THEN "completed"
  ELSE "same"

\* Variant of SweepStatus that never completes a match.
SweepStatusNeverCompletes(row, t) ==
  IF row.status = "upcoming" /\ t >= row.startTime /\ t < row.endTime
    THEN "live"
  ELSE "same"

\* The status the sweep gives a row at time t ("same" when it leaves the row alone)
SweepStatus(row, t) ==
  IF row.status = "upcoming" /\ t >= row.startTime /\ t < row.endTime
    THEN "live"
  ELSE IF row.status \in {"upcoming", "live"} /\ t >= row.endTime
    THEN "completed"
  ELSE "same"

\* WHERE m.status IN ["upcoming", "live"]
SweepSelects(match) == match.status \in {"upcoming", "live"}

\* const result = await getCluster().query(query); the loop body up to its first await
SweepQuery ==
  /\ pc[Sweeper] = "idle"
  /\ LET row == matches[M]
         st == IF SweepSelects(row) THEN SweepStatus(row, now) ELSE "same"
     IN CASE st = "live" ->
               /\ loc' = [loc EXCEPT ![Sweeper] =
                            [IdleLoc EXCEPT !.match = [row EXCEPT !.status = "live"]]]
               /\ pc' = [pc EXCEPT ![Sweeper] = "w_save"]
          [] st = "completed" ->
               /\ loc' = [loc EXCEPT ![Sweeper] =
                            [IdleLoc EXCEPT !.match = [row EXCEPT !.status = "completed"]]]
               /\ pc' = [pc EXCEPT ![Sweeper] = "w_teams"]
          [] OTHER -> UNCHANGED <<pc, loc>>
  /\ UNCHANGED <<matches, teams, players, trophies, now, calls,
                 settleRuns, okSubmit>>

\* const myTeamDoc = await teams.get(...); const oppTeamDoc = await teams.get(...);
\* sendNotification(captains, "Match Completed")
SweepTeams ==
  /\ pc[Sweeper] = "w_teams"
  /\ LET q == NotifRequests(<<teams["H"].captain, teams["A"].captain>>, "completed")
     IN /\ loc' = [loc EXCEPT ![Sweeper] = EnterNotify(@, q, "w_save")]
        /\ pc' = [pc EXCEPT ![Sweeper] = NotifyPc(q, "w_save")]
  /\ UNCHANGED <<matches, teams, players, trophies, now, calls,
                 settleRuns, okSubmit>>

\* if (statusChanged) await matches.upsert(match.id, match)
SweepSave ==
  /\ pc[Sweeper] = "w_save"
  /\ matches' = [matches EXCEPT ![M] = loc[Sweeper].match]
  /\ loc' = [loc EXCEPT ![Sweeper] = IdleLoc]
  /\ pc' = [pc EXCEPT ![Sweeper] = "idle"]
  /\ UNCHANGED <<teams, players, trophies, now, calls, settleRuns, okSubmit>>

Sweep ==
  \/ SweepQuery
  \/ SweepTeams
  \/ SweepSave

(* ------------------------- cron: one tick over several match rows       *)

\* A second match between the same two teams, next to M.
M2 == "m2"
RowOrders == {<<M, M2>>, <<M2, M>>}

\* The rows of result.rows the loop acts on, in the order the query returned
\* them: each with the status the tick's `now` gives it.  A row the loop leaves
\* alone is passed over without an await.
TickRows(order, t) ==
  LET due(id) == /\ id \in DOMAIN matches
                 /\ SweepSelects(matches[id])
                 /\ SweepStatus(matches[id], t) # "same"
      row(id) == [id |-> id,
                  match |-> [matches[id] EXCEPT !.status = SweepStatus(matches[id], t)]]
      ids == SelectSeq(order, due)
  IN [i \in 1..Len(ids) |-> row(ids[i])]

\* The loop body's first await for the row at the head of rows.
TickPc(rows) ==
  IF rows = <<>> THEN "idle"
  ELSE IF Head(rows).match.status = "completed" THEN "t_teams"
  ELSE "t_save"

\* const now = new Date(); const result = await getCluster().query(query)
TickQuery ==
  /\ pc[Sweeper] = "idle"
  /\ \E order \in RowOrders :
       LET rows == TickRows(order, now)
       IN /\ rows # <<>>
          /\ loc' = [loc EXCEPT ![Sweeper] = [IdleLoc EXCEPT !.work = rows]]
          /\ pc' = [pc EXCEPT ![Sweeper] = TickPc(rows)]
  /\ UNCHANGED <<matches, teams, players, trophies, now, calls,
                 settleRuns, okSubmit>>

\* try { teams.get x 2; await sendNotification(captains, "Match Completed") }
TickTeams ==
  /\ pc[Sweeper] = "t_teams"
  /\ LET q == NotifRequests(<<teams["H"].captain, teams["A"].captain>>, "completed")
     IN /\ loc' = [loc EXCEPT ![Sweeper] = EnterNotify(@, q, "t_save")]
        /\ pc' = [pc EXCEPT ![Sweeper] = NotifyPc(q, "t_save")]
  /\ UNCHANGED <<matches, teams, players, trophies, now, calls,
                 settleRuns, okSubmit>>

\* teams.get rejects: catch (notifyErr) logs it and the loop body goes on to the save.
TickTeamsFails ==
  /\ pc[Sweeper] = "t_teams"
  /\ pc' = [pc EXCEPT ![Sweeper] = "t_save"]
  /\ UNCHANGED <<matches, teams, players, trophies, now, loc, calls,
                 settleRuns, okSubmit>>

\* if (statusChanged) await matches.upsert(match.id, match); then the next row
TickSave ==
  /\ pc[Sweeper] = "t_save"
  /\ LET l == loc[Sweeper]
         row == Head(l.work)
     IN /\ matches' = [matches EXCEPT ![row.id] = row.match]
        /\ loc' = [loc EXCEPT ![Sweeper] = [IdleLoc EXCEPT !.work = Tail(l.work)]]
        /\ pc' = [pc EXCEPT ![Sweeper] = TickPc(Tail(l.work))]
  /\ UNCHANGED <<teams, players, trophies, now, calls, settleRuns, okSubmit>>

\* The matches collection refuses writes during the minute the matches start
\* (one outage, so that a behaviour holds finitely many failed writes).
MatchesOutage == now = Schedule.startTime

\* matches.upsert rejects: nothing inside the loop catches it, so the for loop is
\* left for the outer catch, which logs the error and ends the tick.  The rows
\* after the failed one are kept in work as the record of what the tick left.
TickSaveFails ==
  /\ pc[Sweeper] = "t_save"
  /\ MatchesOutage
  /\ loc' = [loc EXCEPT ![Sweeper] =
               [IdleLoc EXCEPT !.work = Tail(loc[Sweeper].work),
                               !.result = "WriteFailed"]]
  /\ pc' = [pc EXCEPT ![Sweeper] = "idle"]
  /\ UNCHANGED <<matches, teams, players, trophies, now, calls,
                 settleRuns, okSubmit>>

Tick ==
  \/ TickQuery
  \/ TickTeams
  \/ TickTeamsFails
  \/ TickSave
  \/ TickSaveFails

(* ---------------------------------------------------------------- system *)

Handlers(p) ==
  \/ Respond(p)
  \/ Submit(p)
  \/ NotifyGet(p)
  \/ NotifyPut(p)

(* --------------------------------- cron: daily notification cleanup      *)

\* The notifications whose date lies 7 days or more before the cleanup's `now`:
\* the invitation and its answer were delivered over a week before the match;
\* what the match's own day delivers is newer.
StaleKinds == {"match_invite", "cancelled", "upcoming"}

\* notifications.filter(n => diffDays < 7)
KeepRecent(notifications) ==
  [k \in NotifKinds |-> IF k \in StaleKinds THEN 0 ELSE notifications[k]]

\* ARRAY_LENGTH(p.notifications) > 0
HasNotifications(doc) == \E k \in NotifKinds : doc.notifications[k] > 0

\* The rows of result.rows the loop awaits on, in the order the query returned
\* them, each with the filtered copy of the notifications the query returned.
\* A row whose filter drops nothing is passed over without an await.
CleanRows(order) ==
  LET due(id) == /\ id \in DOMAIN players
                 /\ HasNotifications(players[id])
                 /\ KeepRecent(players[id].notifications) # players[id].notifications
      ids == SelectSeq(order, due)
  IN [i \in 1..Len(ids) |->
        [playerId |-> ids[i],
         updatedNotifications |-> KeepRecent(players[ids[i]].notifications)]]

CleanPc(rows) == IF rows = <<>> THEN "done" ELSE "c_get"

\* const result = await cluster.query(query); const now = new Date();
\* the day's one run
CleanQuery ==
  /\ pc[Cleaner] = "idle"
  /\ \E order \in {<<"ch", "ca">>, <<"ca", "ch">>} :
       LET rows == CleanRows(order)
       IN /\ loc' = [loc EXCEPT ![Cleaner] = [IdleLoc EXCEPT !.work = rows]]
          /\ pc' = [pc EXCEPT ![Cleaner] = CleanPc(rows)]
  /\ UNCHANGED <<matches, teams, players, trophies, now, calls,
                 settleRuns, okSubmit>>

\* const playerDoc = await collection.get(playerId);
\* playerData.notifications = updatedNotifications
CleanGet ==
  /\ pc[Cleaner] = "c_get"
  /\ LET l == loc[Cleaner]
         h == Head(l.work)
     IN loc' = [loc EXCEPT ![Cleaner] =
                  [l EXCEPT !.who = h.playerId,
                            !.player = [players[h.playerId] EXCEPT
                                          !.notifications = h.updatedNotifications]]]
  /\ pc' = [pc EXCEPT ![Cleaner] = "c_replace"]
  /\ UNCHANGED <<matches, teams, players, trophies, now, calls,
                 settleRuns, okSubmit>>

\* await collection.replace(playerId, playerData); then the next row
CleanReplace ==
  /\ pc[Cleaner] = "c_replace"
  /\ LET l == loc[Cleaner]
     IN /\ players' = [players EXCEPT ![l.who] = l.player]
        /\ loc' = [loc EXCEPT ![Cleaner] =
                     [l EXCEPT !.work = Tail(l.work), !.who = "none",
                               !.player = NewPlayer, !.wrote = TRUE]]
        /\ pc' = [pc EXCEPT ![Cleaner] = CleanPc(Tail(l.work))]
  /\ UNCHANGED <<matches, teams, trophies, now, calls, settleRuns, okSubmit>>

Clean ==
  \/ CleanQuery
  \/ CleanGet
  \/ CleanReplace

Captains == {"ch", "ca"}

\* The life of the match next to the sweeper: requests of the two captains are
\* served one at a time while the clock runs and the sweeper ticks.
Init == \E stage \in {"upcoming", "pending", "awaySubmitted"} : InitAt(stage)

Next ==
  \/ ClockAdvance
  \/ CallRespond("p1", Captains, {"reject", "accept"}, {<<"ca">>})
  \/ CallSubmit("p1", Captains, {"goal"}, {0, 3})
  \/ Handlers("p1")
  \/ Sweep
  \/ NotifyGet(Sweeper)
  \/ NotifyPut(Sweeper)

Spec == Init /\ [][Next]_vars

\* Requests in flight together: two handler slots, any signed-in caller, no
\* sweeper tick in between (the match is before its start time).
InitHandlers == \E stage \in {"upcoming", "pending"} : InitAt(stage)

NextHandlers ==
  \/ \E p \in Procs : CallRespond(p, Callers, {"reject", "accept"}, {<<"ca">>})
  \/ \E p \in Procs : CallSubmit(p, Callers, {"goal"}, {3})
  \/ \E p \in Procs : Handlers(p)

SpecHandlers == InitHandlers /\ [][NextHandlers]_vars

\* Two submitStats requests in flight together on an accepted match.
InitRace == \E stage \in {"upcoming", "awaySubmitted"} : InitAt(stage)

NextRace ==
  \/ \E p \in Procs : CallSubmit(p, Captains, {"goal"}, {0, 3})
  \/ \E p \in Procs : Submit(p)
  \/ \E p \in Procs : NotifyGet(p)
  \/ \E p \in Procs : NotifyPut(p)

SpecRace == InitRace /\ [][NextRace]_vars

\* Every request payload, requests served one after the other.
NextInputs ==
  \/ CallRespond("p1", Callers, {"reject", "accept", "other"}, {<<>>, <<"ca">>})
  \/ CallSubmit("p1", Callers, {"goal", "empty", "nogoal", "bad"}, {0, 3, 6})
  \/ Handlers("p1")

SpecInputs == Init /\ [][NextInputs]_vars

\* Answering an invitation, for rosters of up to three players a side and a
\* match with or without a trophy: one request at a time.
HomeSquad == <<"ch", "h2", "h3">>
AwaySquad == <<"ca", "a2", "a3">>
SquadIds == {"ch", "ca", "h2", "a2", "h3", "a3"}
Rosters(squad) == {SubSeq(squad, 1, n) : n \in 0..Len(squad)}

InitFees ==
  /\ \E roster \in Rosters(HomeSquad), trophyId \in {"none", Trophy.id} :
       matches = [m \in {M} |-> NewMatch(trophyId, roster)]
  /\ players = [q \in SquadIds |->
                  IF q = "ca"
                    THEN [NewPlayer EXCEPT !.notifications["match_invite"] = 1]
                    ELSE NewPlayer]
  /\ okSubmit = {}
  /\ InitRest

NextFees ==
  \/ CallRespond("p1", {"ca"}, {"reject", "accept"}, Rosters(AwaySquad))
  \/ Respond("p1")
  \/ NotifyGet("p1")
  \/ NotifyPut("p1")

SpecFees == InitFees /\ [][NextFees]_vars

\* The sweeper next to the home captain's submissions, on an accepted match.
NextSweep ==
  \/ ClockAdvance
  \/ CallSubmit("p1", {"ch"}, {"goal"}, {3})
  \/ Submit("p1")
  \/ NotifyGet("p1")
  \/ NotifyPut("p1")
  \/ Sweep
  \/ NotifyGet(Sweeper)
  \/ NotifyPut(Sweeper)

SpecSweep == InitRace /\ [][NextSweep]_vars

\* cron.schedule("* * * * *", ...): a tick is started every minute and the
\* awaits of a started tick return; the clock does not stop.
SweeperRuns ==
  /\ WF_vars(Sweep)
  /\ WF_vars(NotifyGet(Sweeper) \/ NotifyPut(Sweeper))
  /\ WF_vars(ClockAdvance)

SpecSweepFair == SpecSweep /\ SweeperRuns

\* The home captain's submission completes the pair on a match whose trophy
\* exists, was never set, or no longer resolves.
UnchargedPlayers ==
  [q \in PlayerIds |-> [NewPlayer EXCEPT !.notifications["upcoming"] = 1]]

InitTrophy ==
  /\ \E trophyId \in {"none", Trophy.id}, kept \in SUBSET {Trophy.id} :
       /\ matches = [m \in {M} |-> [AwaySubmittedMatch EXCEPT !.trophyId = trophyId]]
       /\ players = IF trophyId = "none" THEN UnchargedPlayers ELSE AcceptedPlayers
       /\ trophies = kept
  /\ teams = [t \in TeamIds |-> NewTeam(IF t = "H" THEN "ch" ELSE "ca")]
  /\ now = 0
  /\ pc = [p \in AllProcs |-> "idle"]
  /\ loc = [p \in AllProcs |-> IdleLoc]
  /\ calls = 0
  /\ settleRuns = 0
  /\ okSubmit = {"ca"}

NextTrophy ==
  \/ CallSubmit("p1", Captains, {"goal"}, {0, 3})
  \/ Submit("p1")
  \/ NotifyGet("p1")
  \/ NotifyPut("p1")

SpecTrophy == InitTrophy /\ [][NextTrophy]_vars

\* The submission that completes the pair while the notification writes may
\* fail.
NextNotifyFails ==
  \/ CallSubmit("p1", {"ch"}, {"goal"}, {0, 3})
  \/ Submit("p1")
  \/ NotifyGet("p1")
  \/ NotifyPut("p1")
  \/ NotifyGetFails("p1")
  \/ NotifyPutFails("p1")

InitSettle == InitAt("awaySubmitted")

SpecNotifyFails == InitSettle /\ [][NextNotifyFails]_vars

\* The submission that completes the pair while the store writes of the
\* settlement may fail, and the captain's retry.
NextRetry ==
  \/ CallSubmit("p1", {"ch"}, {"goal"}, {0, 3})
  \/ Submit("p1")
  \/ NotifyGet("p1")
  \/ NotifyPut("p1")
  \/ SettleWriteFails("p1")

SpecRetry == InitSettle /\ [][NextRetry]_vars

\* Settlement over the values that earlier matches and the captains' payloads
\* can bring: the away captain has submitted, the home side fields two players,
\* and the home captain's submission completes the pair.
FullHistory ==
  [i \in 1..HistoryCap |-> [result |-> "win", overallPerformance |-> 100 * i]]

\* A player after earlier matches: position, aura and match history.
Veteran(position, auraPoints, history) ==
  [GetDefaultStats(position) EXCEPT !.auraPoints = auraPoints,
                                    !.matchHistory = history]

\* Points of the players once the entry fee has been taken from both rosters.
PointsAfterFee(q) ==
  InitialPoints - (IF q = "ca" THEN Trophy.fee \div 2 ELSE Trophy.fee \div 4)

InitSettlement ==
  /\ \E away \in {"goal", "nogoal"} :
       matches = [m \in {M} |->
                    [AcceptedMatch EXCEPT !.myPlayers = <<"ch", "h2">>,
                                          !.oppTeamStats = StatsOf(away, "ca"),
                                          !.oppTeamSubmitted = TRUE]]
  /\ \E position \in {"Defender", "Forward"}, auraPoints \in {0, 900, 999},
        history \in {<<>>, FullHistory} :
       players = [q \in {"ch", "ca", "h2"} |->
                    [Veteran(position, auraPoints, history)
                       EXCEPT !.points = PointsAfterFee(q),
                              !.notifications["upcoming"] = 1]]
  /\ okSubmit = {"ca"}
  /\ InitRest

NextSettlement ==
  \/ CallSubmit("p1", {"ch"},
                {"goal", "empty", "nogoal", "brace", "negative", "cards"}, {0, 3})
  \/ Submit("p1")
  \/ NotifyGet("p1")
  \/ NotifyPut("p1")

SpecSettlement == InitSettlement /\ [][NextSettlement]_vars

\* The day of the match: the cleanup job runs once while the clock passes the
\* match's times and the one-minute job completes the match and tells the
\* captains.
NextPrune ==
  \/ ClockAdvance
  \/ Sweep
  \/ NotifyGet(Sweeper)
  \/ NotifyPut(Sweeper)
  \/ Clean

SpecPrune == InitAt("upcoming") /\ [][NextPrune]_vars

\* Scheduling matches: no match is stored yet, the two teams and their
\* captains exist, and the home captain and a user without a team post matches
\* against team A or against an id that is no team's; the invitation's write
\* may fail.
InitCreate ==
  /\ matches = [id \in {} |-> NewMatch("none", <<>>)]
  /\ players = [q \in PlayerIds |-> NewPlayer]
  /\ okSubmit = {}
  /\ InitRest

NextCreate ==
  \/ CallCreate("p1", {"x", "ch"}, {"A", NoTeam}, Rosters(HomeSquad))
  \/ Create("p1")
  \/ NotifyGet("p1")
  \/ NotifyPut("p1")
  \/ CreateNotifyFails("p1")

SpecCreate == InitCreate /\ [][NextCreate]_vars

\* Settlement of players whose rated skills earlier matches have raised to a
\* level (tenths) around each step of getMultiplier.
SkillLevels == {500, 698, 795, 849, 899, 945, 960, 985, 990}

Skilled(position, level) ==
  [GetDefaultStats(position) EXCEPT
     !.skills = [sk \in AllSkills |->
                   IF sk \in RatedSkills(position) THEN level ELSE @[sk]]]

InitSkills ==
  /\ \E away \in {"goal", "nogoal"} :
       matches = [m \in {M} |->
                    [AcceptedMatch EXCEPT !.myPlayers = <<"ch", "h2">>,
                                          !.oppTeamStats = StatsOf(away, "ca"),
                                          !.oppTeamSubmitted = TRUE]]
  /\ \E position \in Positions, home \in SkillLevels, away \in {500, 960} :
       players = [q \in {"ch", "ca", "h2"} |->
                    [Skilled(position, IF q = "ca" THEN away ELSE home)
                       EXCEPT !.points = PointsAfterFee(q),
                              !.notifications["upcoming"] = 1]]
  /\ okSubmit = {"ca"}
  /\ InitRest

NextSkills ==
  \/ CallSubmit("p1", {"ch"}, {"goal", "nogoal", "brace"}, {0, 3})
  \/ Submit("p1")
  \/ NotifyGet("p1")
  \/ NotifyPut("p1")

SpecSkills == InitSkills /\ [][NextSkills]_vars

\* Settlement on each of the trophies an administrator has posted: the home
\* side of two and the away captain have paid (or been paid) their share of the
\* fee, the away captain has submitted, the home captain's call settles.
Teamed(q) == IF q = "ca" THEN <<"ca">> ELSE <<"ch", "h2">>
StartPoints(q, trophy) == InitialPoints - FeeShare(trophy.fee, Teamed(q))

InitShares ==
  /\ \E away \in {"goal", "nogoal"}, trophy \in {Trophy, OddTrophy, OwedTrophy} :
       /\ matches = [m \in {M} |->
                       [AcceptedMatch EXCEPT !.trophyId = trophy.id,
                                             !.myPlayers = <<"ch", "h2">>,
                                             !.oppTeamStats = StatsOf(away, "ca"),
                                             !.oppTeamSubmitted = TRUE]]
       /\ players = [q \in {"ch", "ca", "h2"} |->
                       [NewPlayer EXCEPT !.points = StartPoints(q, trophy),
                                         !.notifications["upcoming"] = 1]]
  /\ trophies = {Trophy.id, OddTrophy.id, OwedTrophy.id}
  /\ teams = [t \in TeamIds |-> NewTeam(IF t = "H" THEN "ch" ELSE "ca")]
  /\ now = 0
  /\ pc = [p \in AllProcs |-> "idle"]
  /\ loc = [p \in AllProcs |-> IdleLoc]
  /\ calls = 0
  /\ settleRuns = 0
  /\ okSubmit = {"ca"}

NextShares ==
  \/ CallSubmit("p1", {"ch"}, {"goal", "empty", "nogoal", "brace"}, {0, 3})
  \/ Submit("p1")
  \/ NotifyGet("p1")
  \/ NotifyPut("p1")

SpecShares == InitShares /\ [][NextShares]_vars

\* The submission that completes the pair names players twice, players of
\* the other side and players of neither roster; a third player is registered.
InitStray ==
  /\ matches = [m \in {M} |-> AwaySubmittedMatch]
  /\ players = [q \in PlayerIds \cup {Stranger} |->
                  IF q = Stranger THEN NewPlayer ELSE AcceptedPlayers[q]]
  /\ okSubmit = {"ca"}
  /\ InitRest

NextStray ==
  \/ CallSubmit("p1", {"ch"}, {"goal", "twice", "outsider", "opponent"}, {0, 3})
  \/ Submit("p1")
  \/ NotifyGet("p1")
  \/ NotifyPut("p1")

SpecStray == InitStray /\ [][NextStray]_vars

\* The home captain has submitted a record with a goal, alone, and the
\* captains submit again, one request at a time.
HomeSubmittedMatch ==
  [AcceptedMatch EXCEPT !.myTeamStats = StatsOf("goal", "ch"),
                        !.myTeamSubmitted = TRUE]

InitResubmit ==
  /\ matches = [m \in {M} |-> HomeSubmittedMatch]
  /\ players = AcceptedPlayers
  /\ okSubmit = {"ch"}
  /\ InitRest

NextResubmit ==
  \/ CallSubmit("p1", Captains, {"goal", "empty", "nogoal"}, {0, 3})
  \/ Submit("p1")
  \/ NotifyGet("p1")
  \/ NotifyPut("p1")

SpecResubmit == InitResubmit /\ [][NextResubmit]_vars

\* Two submissions of the home captain, each with a rating of the away team,
\* in flight together after the away captain has submitted.
NextRate ==
  \/ \E p \in Procs : CallSubmit(p, {"ch"}, {"goal"}, {3})
  \/ \E p \in Procs : Submit(p)
  \/ \E p \in Procs : NotifyGet(p)
  \/ \E p \in Procs : NotifyPut(p)

SpecRate == InitSettle /\ [][NextRate]_vars

\* Both captains have submitted on a match whose trophy was never set or no
\* longer resolves; the home captain's request answered with 404.
BothSubmittedMatch ==
  [AwaySubmittedMatch EXCEPT !.myTeamStats = StatsOf("goal", "ch"),
                             !.myTeamSubmitted = TRUE]

InitOrphan ==
  \/ InitTrophy
  \/ /\ \E trophyId \in {"none", Trophy.id} :
          /\ matches = [m \in {M} |-> [BothSubmittedMatch EXCEPT !.trophyId = trophyId]]
          /\ players = IF trophyId = "none" THEN UnchargedPlayers ELSE AcceptedPlayers
     /\ trophies = {}
     /\ teams = [t \in TeamIds |-> NewTeam(IF t = "H" THEN "ch" ELSE "ca")]
     /\ now = 0
     /\ pc = [p \in AllProcs |-> "idle"]
     /\ loc = [p \in AllProcs |-> IdleLoc]
     /\ calls = 0
     /\ settleRuns = 0
     /\ okSubmit = {"ch", "ca"}

\* The captains keep submitting, one request at a time, while the clock and the
\* cron job run.
NextOrphan ==
  \/ ClockAdvance
  \/ CallSubmit("p1", Captains, {"goal"}, {0, 3})
  \/ Submit("p1")
  \/ NotifyGet("p1")
  \/ NotifyPut("p1")
  \/ Sweep
  \/ NotifyGet(Sweeper)
  \/ NotifyPut(Sweeper)

SpecOrphan == InitOrphan /\ [][NextOrphan]_vars

\* Answering an invitation to a match whose trophy costs more than the two
\* captains own.
InitBigFee ==
  /\ \E roster \in Rosters(HomeSquad) :
       matches = [m \in {M} |-> NewMatch(BigTrophy.id, roster)]
  /\ players = [q \in SquadIds |->
                  IF q = "ca"
                    THEN [NewPlayer EXCEPT !.notifications["match_invite"] = 1]
                    ELSE NewPlayer]
  /\ teams = [t \in TeamIds |-> NewTeam(IF t = "H" THEN "ch" ELSE "ca")]
  /\ trophies = {BigTrophy.id}
  /\ now = 0
  /\ pc = [p \in AllProcs |-> "idle"]
  /\ loc = [p \in AllProcs |-> IdleLoc]
  /\ calls = 0
  /\ settleRuns = 0
  /\ okSubmit = {}

SpecBigFee == InitBigFee /\ [][NextFees]_vars

\* The cron job alone over two accepted matches, with Store failures.
InitTick ==
  /\ matches = [m \in {M, M2} |-> AcceptedMatch]
  /\ players = AcceptedPlayers
  /\ okSubmit = {}
  /\ InitRest

NextTick ==
  \/ ClockAdvance
  \/ Tick
  \/ NotifyGet(Sweeper)
  \/ NotifyPut(Sweeper)
  \/ NotifyGetFails(Sweeper)

SpecTick == InitTick /\ [][NextTick]_vars

(* ------------------------------------------------------------ properties *)

Stored == matches[M]

\* A request that has returned, of the given kind.
Returned(p, kind) == pc[p] = "done" /\ loc[p].kind = kind

ErrorResults == {"NotifyFailed", "Unauthorized", "ServerError", "ValidationError",
                 "InvalidState", "TrophyNotFound", "WriteFailed"}

\* The transition graph of the match status.
StatusEdges ==
  {<<"upcoming", "completed">>, <<"upcoming", "live">>,
   <<"upcoming", "final">>, <<"completed", "final">>,
   <<"live", "completed">>, <<"live", "final">>,
   <<"pending", "cancelled">>, <<"pending", "upcoming">>}

\* C1: the stored status of a match changes only along the edges
\* pending->upcoming, pending->cancelled, upcoming->live, upcoming|live->completed
\* and upcoming|live|completed->final, whatever the interleaving of responses,
\* submissions and sweeper ticks.
C1_StatusFollowsEdges ==
  [][Stored'.status # Stored.status
       => <<Stored.status, Stored'.status>> \in StatusEdges]_vars

\* A response has moved a cancelled match back to upcoming.
C1_Reopened ==
  \E p \in Procs : /\ Returned(p, "respond")
                   /\ loc[p].rd = "cancelled"
                   /\ Stored.status = "upcoming"

\* C2: the settlement step (distributePoints and updateTeam) is entered at most
\* once for the match, whatever the interleaving of submitStats calls.
C2_SettledAtMostOnce == settleRuns <= 1

\* Two submissions of the home captain have both returned "finalized".
C2_SettledTwice ==
  /\ settleRuns = 2
  /\ \A p \in Procs : Returned(p, "submit") /\ loc[p].caller = "ch"
                                            /\ loc[p].result = "finalized"

\* C3: once a submission flag is true in the stored match, no later write makes
\* it false.
C3_FlagsStaySet ==
  [][/\ Stored.myTeamSubmitted => Stored'.myTeamSubmitted
     /\ Stored.oppTeamSubmitted => Stored'.oppTeamSubmitted]_vars

\* The home captain's submission has returned success and the stored match has
\* lost its flag.
C3_FlagLost ==
  /\ "ch" \in okSubmit
  /\ ~Stored.myTeamSubmitted

\* C4: once the submitStats calls of both captains have returned success, the
\* match is final with both flags true and both stat arrays stored.
C4_BothReturnedMeansFinal ==
  ({"ch", "ca"} \subseteq okSubmit)
    => /\ Stored.status = "final"
       /\ Stored.myTeamSubmitted /\ Stored.oppTeamSubmitted
       /\ Stored.myTeamStats.kind = "array" /\ Stored.oppTeamStats.kind = "array"

\* Both captains were told to wait for the other and nothing is in flight.
C4_BothWaiting ==
  /\ \E p, q \in Procs :
       /\ Returned(p, "submit") /\ loc[p].caller = "ch" /\ loc[p].result = "waiting"
       /\ Returned(q, "submit") /\ loc[q].caller = "ca" /\ loc[q].result = "waiting"
  /\ Stored.status = "upcoming"

\* C5: respondToInvite on a match that is cancelled or final returns an error
\* and writes no document (match, player points, player notifications).
C5_TerminalResponseRejected ==
  \A p \in Procs :
    (Returned(p, "respond") /\ loc[p].rd \in {"cancelled", "final"})
      => loc[p].result \in ErrorResults /\ ~loc[p].wrote

\* The away captain's answer on a terminal match has succeeded.
C5_TerminalResponseAccepted ==
  \E p \in Procs : /\ Returned(p, "respond")
                   /\ loc[p].rd \in {"cancelled", "final"}
                   /\ loc[p].result = "ok"
                   /\ Stored.status \in {"cancelled", "upcoming"}

\* C6: submitStats on a match whose status is not upcoming, live or completed
\* is rejected as "not active" on the spot and writes no document.
C6_InactiveSubmitRejected ==
  \A p \in Procs :
    (loc[p].kind = "submit" /\ loc[p].rd \notin ActiveStatuses \cup {"none"})
      => /\ pc[p] = "done"
         /\ loc[p].result = "InvalidState"
         /\ ~loc[p].wrote

\* A captain's submission on a cancelled match has been rejected.
C6_RejectedOnCancelled ==
  \E p \in Procs : /\ Returned(p, "submit")
                   /\ loc[p].caller \in Captains
                   /\ loc[p].rd = "cancelled"
                   /\ loc[p].result = "InvalidState"

\* C7: a stored match with status final has both submission flags true and
\* both sides' stat arrays stored.
C7_FinalHasBothSubmissions ==
  Stored.status = "final"
    => /\ Stored.myTeamSubmitted /\ Stored.oppTeamSubmitted
       /\ Stored.myTeamStats.kind = "array" /\ Stored.oppTeamStats.kind = "array"

\* The match has been settled and is final.
C7_Settled ==
  /\ Stored.status = "final"
  /\ Stored.result.set
  /\ settleRuns >= 1

\* C8: the result payload is present on the stored match if and only if its
\* status is final.
C8_ResultIffFinal == Stored.result.set <=> Stored.status = "final"

\* A final match has been accepted again: it is upcoming and carries a result.
C8_ResultOnUpcoming ==
  /\ Stored.status = "upcoming"
  /\ Stored.result.set

\* A submitStats call by a user who captains neither team / a respondToInvite
\* call by anyone but the captain of the invited team.
Outsider(p) ==
  \/ loc[p].kind = "submit" /\ loc[p].caller \notin {teams["H"].captain, teams["A"].captain}
  \/ loc[p].kind = "respond" /\ loc[p].caller # teams["A"].captain

\* C9 (as stated): such a call returns an authorization error and writes no
\* document.
C9_OutsiderUnauthorized ==
  \A p \in Procs :
    (pc[p] = "done" /\ Outsider(p))
      => loc[p].result = "Unauthorized" /\ ~loc[p].wrote

\* C9 (amended): such a call returns an error and writes no document; the
\* error is the authorization error, except that submitStats on a match that is
\* not upcoming, live or completed answers "not active" before it looks at the
\* caller.
C9_OutsiderRejected ==
  \A p \in Procs :
    (pc[p] = "done" /\ Outsider(p))
      => /\ loc[p].result =
              IF loc[p].kind = "submit" /\ loc[p].rd \notin ActiveStatuses
                THEN "InvalidState" ELSE "Unauthorized"
         /\ ~loc[p].wrote

\* An outsider's submission on an active match and a response by someone who
\* is not the invited captain have both been refused.
C9_Refused ==
  \E p, q \in Procs :
    /\ Returned(p, "submit") /\ loc[p].caller = "x"
    /\ loc[p].rd \in ActiveStatuses /\ loc[p].result = "Unauthorized"
    /\ Returned(q, "respond") /\ loc[q].caller # "ca"
    /\ loc[q].result = "Unauthorized"

\* A request whose payload is invalid: a rating outside 1..5 (0 is no rating),
\* a stat payload that is no array, an action that is neither accept nor reject.
InvalidPayload(p) ==
  \/ /\ loc[p].kind = "submit"
     /\ \/ loc[p].teamRate \notin 0..5
        \/ loc[p].teamStats.kind # "array"
  \/ /\ loc[p].kind = "respond"
     /\ loc[p].action \notin {"reject", "accept"}

\* C10: a request with an invalid payload is rejected before any document is
\* written.  (Any error answer counts as the rejection here, so that a refusal
\* for another reason - the caller, the match status - is not held against it.)
C10_InvalidPayloadRejected ==
  \A p \in Procs :
    (pc[p] = "done" /\ InvalidPayload(p))
      => loc[p].result \in ErrorResults /\ ~loc[p].wrote

\* A submission carrying the rating 6 has been stored and answered with success.
C10_BadRatingStored ==
  \E p \in Procs : /\ Returned(p, "submit")
                   /\ loc[p].teamRate = 6
                   /\ loc[p].result \in {"waiting", "finalized"}
                   /\ loc[p].wrote

\* What a player has been charged since the match was created.
Charged(q) == InitialPoints - players[q].points

InRoster(q, roster) == \E i \in 1..Len(roster) : roster[i] = q

\* The first request of the behaviour has returned; it answered the pending
\* invitation with the given action.
FirstAnswer(action) ==
  /\ calls = 1
  /\ Returned("p1", "respond")
  /\ loc["p1"].rd = "pending"
  /\ loc["p1"].action = action
  /\ loc["p1"].result = "ok"

\* floor(F/2/n) for a roster of n players (nothing for an empty roster).
RosterCharge(roster) ==
  IF Len(roster) = 0 THEN 0 ELSE (Trophy.fee \div 2) \div Len(roster)

\* C11: after the invited captain has accepted a pending match whose trophy
\* exists with fee F, every player of a roster of n players has been charged
\* exactly floor(F/2/n), each roster by its own size; a roster as a whole has
\* been charged at most F/2, and nobody outside the rosters is charged.
C11_FeeSplit ==
  (FirstAnswer("accept") /\ Stored.trophyId \in trophies)
    => /\ \A q \in DOMAIN players :
            Charged(q) =
              IF InRoster(q, Stored.myPlayers)
                THEN RosterCharge(Stored.myPlayers)
              ELSE IF InRoster(q, Stored.opponentPlayers)
                THEN RosterCharge(Stored.opponentPlayers)
              ELSE 0
       /\ 2 * Len(Stored.myPlayers) * RosterCharge(Stored.myPlayers)
            <= Trophy.fee
       /\ 2 * Len(Stored.opponentPlayers) * RosterCharge(Stored.opponentPlayers)
            <= Trophy.fee

\* Three players a side have been charged 16 each: the remainder of 50 / 3 is
\* charged to no one.
C11_ThreeASide ==
  /\ FirstAnswer("accept")
  /\ Stored.trophyId \in trophies
  /\ Len(Stored.myPlayers) = 3 /\ Len(Stored.opponentPlayers) = 3
  /\ \A q \in SquadIds : Charged(q) = 16

\* C12: rejecting an invitation, or accepting a match that has no trophyId,
\* leaves every player's points balance unchanged.
C12_NoFeeNoCharge ==
  (FirstAnswer("reject") \/ (FirstAnswer("accept") /\ Stored.trophyId = "none"))
    => \A q \in DOMAIN players : Charged(q) = 0

\* A match without trophy has been accepted with full rosters.
C12_AcceptedWithoutTrophy ==
  /\ FirstAnswer("accept")
  /\ Stored.trophyId = "none"
  /\ Stored.status = "upcoming"
  /\ Len(Stored.myPlayers) = 3 /\ Len(Stored.opponentPlayers) = 3

\* C13: over the whole life of a match each captain receives the
\* submit-your-stats notification of the completing sweeper tick exactly once
\* (here: never more than once).
C13_CompletedNotifiedOnce ==
  \A c \in Captains : players[c].notifications["completed"] <= 1

\* The match has been completed twice and the home captain told so twice.
C13_NotifiedTwice ==
  /\ players["ch"].notifications["completed"] = 2
  /\ Stored.status = "completed"

\* A sweeper tick takes up a row: it leaves its idle state with a new status.
TickTakesRow == pc[Sweeper] = "idle" /\ pc'[Sweeper] # "idle"

\* C14: a sweeper tick moves a match to live only if the match is upcoming and
\* startTime <= now < endTime; an upcoming match with now < startTime is not
\* written by the tick.
C14_LiveOnlyInWindow ==
  [][/\ TickTakesRow
        => /\ loc'[Sweeper].match.status = "live"
                <=> /\ Stored.status = "upcoming"
                    /\ Stored.startTime <= now /\ now < Stored.endTime
           /\ ~(Stored.status = "upcoming" /\ now < Stored.startTime)
     /\ (pc[Sweeper] = "w_save" /\ Stored'.status = "live" /\ Stored.status # "live")
        => loc[Sweeper].match.status = "live"]_vars

\* The sweeper has made the match live between its start and its end.
C14_WentLive ==
  /\ Stored.status = "live"
  /\ now = Schedule.startTime
  /\ pc[Sweeper] = "idle"

\* C16: with the sweeper ticking and the clock running past endTime, a match
\* that is upcoming or live is eventually completed or final, whether or not a
\* captain acts.
C16_EventuallyCompleted ==
  [](Stored.status \in {"upcoming", "live"}
       => <>(Stored.status \in {"completed", "final"}))

\* The sweeper has completed a match nobody submitted stats for.
C16_CompletedBySweeper ==
  /\ Stored.status = "completed"
  /\ calls = 0
  /\ now = Schedule.endTime
  /\ pc[Sweeper] = "idle"

\* The counters updateTeam maintains.
TeamRecord(t) ==
  <<teams[t].matchesPlayed, teams[t].wins, teams[t].losses, teams[t].draws,
    teams[t].achievements>>

\* C17: when both sides have submitted but the match's trophy reference is
\* absent or does not resolve, submitStats returns an error, no player document
\* and no team record (matchesPlayed, wins, losses, draws, achievements) has
\* changed, and the match keeps its status.
C17_NoTrophyNoSettlement ==
  (/\ calls = 1
   /\ Returned("p1", "submit")
   /\ BothSubmitted(Stored)
   /\ Stored.trophyId \notin trophies)
    => /\ loc["p1"].result = "TrophyNotFound"
       /\ players = IF Stored.trophyId = "none"
                      THEN UnchargedPlayers ELSE AcceptedPlayers
       /\ \A t \in TeamIds : TeamRecord(t) = <<0, 0, 0, 0, <<>> >>
       /\ Stored.status = loc["p1"].rd
       /\ settleRuns = 0

\* The home captain's submission completed the pair on a match whose trophy no
\* longer resolves and was refused.
C17_RefusedWithoutTrophy ==
  /\ calls = 1
  /\ Returned("p1", "submit")
  /\ loc["p1"].caller = "ch"
  /\ Stored.myTeamSubmitted /\ Stored.oppTeamSubmitted
  /\ Stored.trophyId = Trophy.id /\ trophies = {}
  /\ loc["p1"].result = "TrophyNotFound"

\* C20: a submitStats call after which only one side's flag is true returns
\* "waiting" and changes no player document, no team record and not the status
\* of the stored match.
C20_WaitingChangesNothing ==
  [][(/\ pc["p1"] = "s_save" /\ pc'["p1"] = "done"
      /\ loc'["p1"].result = "waiting")
       => /\ players' = players
          /\ \A t \in TeamIds : TeamRecord(t)' = TeamRecord(t)
          /\ Stored'.status = Stored.status]_vars

\* The sweeper had completed the match and told the captains; the waiting
\* submission has put the status back to upcoming.
C20_StatusPutBack ==
  /\ Returned("p1", "submit")
  /\ loc["p1"].result = "waiting"
  /\ calls = 1
  /\ players["ch"].notifications["completed"] = 1
  /\ pc[Sweeper] = "idle"
  /\ Stored.status = "upcoming"

\* Every player named in the stored stats has been settled exactly once, and so
\* has each team.
SettledOnce ==
  /\ \A q \in PlayerIds :
       players[q].matches =
         IF InRoster(q, [i \in 1..Len(Stored.myTeamStats.recs) |->
                           Stored.myTeamStats.recs[i].playerId]
                        \o [i \in 1..Len(Stored.oppTeamStats.recs) |->
                              Stored.oppTeamStats.recs[i].playerId])
           THEN 1 ELSE 0
  /\ \A t \in TeamIds : teams[t].matchesPlayed = 1

\* C19: a failed notification delivery does not make the settlement fail or
\* stop: the submission that entered settlement returns with every player and
\* team updated and the match final.
C19_NotifyFailureSwallowed ==
  (calls = 1 /\ Returned("p1", "submit") /\ settleRuns = 1)
    => /\ loc["p1"].result = "finalized"
       /\ Stored.status = "final"
       /\ SettledOnce

\* The settlement was given up after a player's notification could not be
\* written: one player is settled, the other is not, the match is not final.
C19_SettlementAborted ==
  /\ Returned("p1", "submit")
  /\ loc["p1"].result = "NotifyFailed"
  /\ players["ch"].matches = 1
  /\ players["ca"].matches = 0
  /\ Stored.status = "upcoming"

\* C18: if a store write fails partway through settlement the match keeps its
\* pre-settlement status, and once a retried submitStats has run to completion
\* every player and team carries the updates of exactly one settlement.
C18_RetryIsSafe ==
  /\ (Returned("p1", "submit") /\ loc["p1"].result = "WriteFailed")
       => Stored.status = loc["p1"].rd
  /\ Stored.status = "final" => SettledOnce

\* The retry has finalized the match and the home captain's player document
\* counts the match twice.
C18_CreditedTwice ==
  /\ calls = 2
  /\ Returned("p1", "submit")
  /\ loc["p1"].result = "finalized"
  /\ Stored.status = "final"
  /\ players["ch"].matches = 2

\* C15: when a tick of the sweeper has ended, no due row of that tick was left
\* without its transition, whatever failed while an earlier row was processed.
C15_TickFinishesRows ==
  pc[Sweeper] = "idle" => loc[Sweeper].work = <<>>

\* A tick ended by a failed matches.upsert while a later row, still upcoming
\* in the Store after its start time, had not been reached.
C15_RowAbandoned ==
  /\ pc[Sweeper] = "idle"
  /\ loc[Sweeper].result = "WriteFailed"
  /\ loc[Sweeper].work # <<>>
  /\ matches[Head(loc[Sweeper].work).id].status = "upcoming"
  /\ now >= Schedule.startTime

\* The home captain's handler is writing the settled document of player q.
SettlementWrites(q) ==
  /\ pc["p1"] = "s_pput"
  /\ loc["p1"].who = q
  /\ players'[q] # players[q]

\* The stat records of q in a final match, as sequence indices of allStats.
RecordsOf(q) == {i \in DOMAIN AllStats(Stored) : AllStats(Stored)[i].playerId = q}

\* C23: after any settlement, whatever the values in the stat records, every
\* skill of every player is between 0 and 99 (0 and 990 tenths).
C23_SkillsInRange ==
  \A q \in DOMAIN players : \A sk \in AllSkills : players[q].skills[sk] \in 0..990

\* The match is final and the home captain's shooting, after a stat record
\* with a negative goal count, is below zero.
C23_NegativeSkill ==
  /\ Stored.status = "final"
  /\ Stored.myTeamStats = StatsOf("negative", "ch")
  /\ players["ch"].matches = 1
  /\ players["ch"].skills["shooting"] < 0

\* C24: every player's auraPoints stays within [0,999]; a settlement adds 100
\* capped at 999 to the Man of the Match and takes 100 floored at 0 from every
\* other participant.
C24_AuraBounded ==
  [][\A q \in DOMAIN players :
       /\ players'[q].auraPoints \in 0..999
       /\ SettlementWrites(q) =>
            players'[q].auraPoints =
              IF loc["p1"].res.motm = q
                THEN Min(999, players[q].auraPoints + 100)
                ELSE Max(0, players[q].auraPoints - 100)]_vars

\* The match is final; the Man of the Match, at 999 before, is still at 999
\* and the away captain went from 999 to 899.
C24_AuraAtCap ==
  /\ Stored.status = "final"
  /\ Stored.result.motm = "ch"
  /\ players["ch"].matches = 1
  /\ players["ch"].auraPoints = 999
  /\ players["ca"].auraPoints = 899

\* C25: every player's matchHistory has at most 10 entries, and an entry added
\* to a full history takes the place of the oldest one.
C25_HistoryCapped ==
  [][\A q \in DOMAIN players :
       /\ Len(players'[q].matchHistory) <= 10
       /\ SettlementWrites(q) =>
            LET old == players[q].matchHistory
                new == players'[q].matchHistory
            IN /\ new # <<>>
               /\ SubSeq(new, 1, Len(new) - 1) =
                    IF Len(old) = 10 THEN Tail(old) ELSE old]_vars

\* The match is final and the home captain's history, full before, holds ten
\* entries that start at what was the second oldest.
C25_OldestEvicted ==
  /\ Stored.status = "final"
  /\ players["ch"].matches = 1
  /\ Len(players["ch"].matchHistory) = 10
  /\ players["ch"].matchHistory[1] = FullHistory[2]
  /\ players["ch"].matchHistory[10] \notin {FullHistory[i] : i \in 1..10}

\* C26: the overallPerformance computed at settlement and stored in
\* matchHistory lies in [0,100] (0 to 10000 hundredths) for every stat record.
C26_PerformanceInRange ==
  \A q \in DOMAIN players :
    /\ players[q].overallPerformance \in 0..10000
    /\ \A i \in DOMAIN players[q].matchHistory :
         players[q].matchHistory[i].overallPerformance \in 0..10000

\* The match is final and the newest entry of the home captain's history,
\* from a stat record with twenty red cards, has a negative overallPerformance.
C26_NegativePerformance ==
  /\ Stored.status = "final"
  /\ Stored.myTeamStats = StatsOf("cards", "ch")
  /\ players["ch"].matches = 1
  /\ players["ch"].matchHistory[Len(players["ch"].matchHistory)].overallPerformance < 0

\* The points a draw leaves player q with, for q's one stat record i of n on
\* its side: the fee-paid balance, half the pool over n, and the bonuses.
PointsAfterDraw(q, i, n) ==
  LET r == AllStats(Stored)[i]
  IN PointsAfterFee(q) + (Trophy.fee \div 2) \div n
     + (IF r.goals > 0 THEN r.goals * Trophy.bonuses.goal ELSE 0)
     + (IF r.assists > 0 THEN r.assists * Trophy.bonuses.assist ELSE 0)
     + (IF Stored.result.motm = q THEN Trophy.bonuses.motm ELSE 0)

\* C27: with equal goal totals both sides get pool/2, only the draws counter
\* of both teams and of every participating player goes up, and nobody's
\* achievements gain the trophy.
C27_DrawSplitsEvenly ==
  (Stored.status = "final" /\ Stored.result.winner = "draw") =>
    /\ \A t \in TeamIds :
         /\ teams[t].wins = 0 /\ teams[t].losses = 0 /\ teams[t].draws = 1
         /\ teams[t].achievements = <<>>
    /\ \A q \in DOMAIN players : \A i \in RecordsOf(q) :
         /\ players[q].wins = 0 /\ players[q].losses = 0 /\ players[q].draws = 1
         /\ \A k \in DOMAIN players[q].achievements :
              players[q].achievements[k] # Trophy.id
         /\ players[q].points =
              PointsAfterDraw(q, i, IF i <= Len(Stored.myTeamStats.recs)
                                      THEN Len(Stored.myTeamStats.recs)
                                      ELSE Len(Stored.oppTeamStats.recs))

\* A one-all draw is final: both captains have a draw and no win, and both
\* were credited half the pool.
C27_DrawSettled ==
  /\ Stored.status = "final"
  /\ Stored.result.winner = "draw"
  /\ Stored.result.myGoals = 1
  /\ players["ch"].draws = 1 /\ players["ca"].draws = 1
  /\ teams["H"].draws = 1 /\ teams["A"].draws = 1

\* The roster a side fielded for the match.
RosterOf(match, team) ==
  IF team = "H" THEN match.myPlayers ELSE match.opponentPlayers

\* C28: in a non-draw settlement each player of a side is credited the base
\* share floor((F * pct / 100) / rosterSize), rosterSize being the size of the
\* side's roster for the match.
C28_ShareOverRoster ==
  (pc["p1"] \in {"s_pget", "s_pput"} /\ ~Head(loc["p1"].work).isDraw) =>
    LET w == Head(loc["p1"].work)
        pct == IF w.isWinner THEN Trophy.distribution.win
               ELSE Trophy.distribution.lose
    IN w.perPlayer =
         (Trophy.fee * pct) \div (100 * Len(RosterOf(loc["p1"].match, w.team)))

\* The home side of two won on the captain's one stat record, and the
\* captain was credited the whole winning share (70) next to the goal and
\* Man of the Match bonuses.
C28_WholeShareToOne ==
  /\ Stored.status = "final"
  /\ Stored.result.winner = "H"
  /\ Len(Stored.myPlayers) = 2
  /\ Len(Stored.myTeamStats.recs) = 1
  /\ players["ch"].matches = 1
  /\ players["ch"].points = PointsAfterFee("ch") + 70 + Stored.result.myGoals * 5 + 10

\* Stat record r is no worse than stat record r2: more goals, or as many goals
\* and at least as many assists.
AtLeast(r, r2) ==
  \/ r.goals > r2.goals
  \/ (r.goals = r2.goals /\ r.assists >= r2.assists)

\* C29: the Man of the Match of a final match is a stat record of the two
\* sides with the highest goals and, among those, the highest assists; there
\* is one whenever a record has a goal or an assist to show.
C29_MotmIsBest ==
  Stored.status = "final" =>
    LET all == AllStats(Stored)
    IN /\ Stored.result.motm # "none" =>
            \E i \in DOMAIN all :
              /\ all[i].playerId = Stored.result.motm
              /\ \A j \in DOMAIN all : AtLeast(all[i], all[j])
       /\ (\E j \in DOMAIN all : all[j].goals > 0
                                 \/ (all[j].goals = 0 /\ all[j].assists > 0))
            => Stored.result.motm # "none"

\* Two home records tie on two goals and the one with the assist is the Man
\* of the Match of the final match.
C29_AssistsBreakTie ==
  /\ Stored.status = "final"
  /\ Stored.myTeamStats = StatsOf("brace", "ch")
  /\ Stored.result.motm = "h2"

\* C30: whenever settlement ran with at least one stat record across the two
\* sides, result.motm is a player reference.
C30_MotmAlwaysAssigned ==
  (Stored.status = "final" /\ AllStats(Stored) # <<>>) =>
    Stored.result.motm \in DOMAIN players

\* A goalless match with a stat record on each side is final and has no Man
\* of the Match.
C30_NoMotm ==
  /\ Stored.status = "final"
  /\ Len(Stored.myTeamStats.recs) = 1
  /\ Len(Stored.oppTeamStats.recs) = 1
  /\ Stored.result.motm = "none"

\* C21: when a captain submits again before the other side has submitted, the
\* match stored is the one a single submission of the later array would have
\* left: that array in the side's slot, the side's flag true.
C21_ResubmissionReplaces ==
  (Returned("p1", "submit") /\ loc["p1"].result = "waiting") =>
    Stored = WithSubmission(AcceptedMatch, "myTeamStats", loc["p1"].teamStats)

\* The home captain, who had submitted a record with a goal, has submitted a
\* goalless record and that is the array stored.
C21_SecondArrayStored ==
  /\ Returned("p1", "submit")
  /\ loc["p1"].result = "waiting"
  /\ loc["p1"].caller = "ch"
  /\ Stored.myTeamStats = StatsOf("nogoal", "ch")
  /\ Stored.myTeamSubmitted
  /\ ~Stored.oppTeamSubmitted

\* The call served by p was accepted and carried a rating from 1 to 5.
RatedCall(p) ==
  /\ Returned(p, "submit")
  /\ loc[p].result \in {"waiting", "finalized"}
  /\ RateAccepted(loc[p].teamRate)

\* C22: each accepted submitStats call with a rating from 1 to 5 adds exactly
\* one to the opponent team's ratingCount and leaves the caller's own team's
\* rating alone.
C22_EachRatingCounts ==
  (RatedCall("p1") /\ RatedCall("p2")
   /\ loc["p1"].caller = "ch" /\ loc["p2"].caller = "ch") =>
    /\ teams["A"].ratingCount = 2
    /\ teams["H"].ratingCount = 0

\* Two rated submissions of the home captain were accepted and the away
\* team's ratingCount is 1.
C22_RatingLost ==
  /\ RatedCall("p1") /\ RatedCall("p2")
  /\ loc["p1"].caller = "ch" /\ loc["p2"].caller = "ch"
  /\ teams["A"].ratingCount = 1

\* C34: over the respondToInvite calls on one match every roster player's
\* share of the entry fee is taken at most once; no player is ever charged more
\* than the largest single share, half the fee.
C34_ChargedOnce ==
  \A q \in DOMAIN players : Charged(q) <= Trophy.fee \div 2

\* The invited captain has accepted the match a second time, when it was
\* upcoming, and has now paid the whole fee.
C34_ChargedTwice ==
  /\ calls = 2
  /\ Returned("p1", "respond")
  /\ loc["p1"].action = "accept"
  /\ loc["p1"].rd = "upcoming"
  /\ loc["p1"].result = "ok"
  /\ Stored.opponentPlayers = <<"ca">>
  /\ Charged("ca") = Trophy.fee

\* C38: every player's points balance is at least 0 in every reachable state.
C38_PointsNeverNegative ==
  \A q \in DOMAIN players : players[q].points >= 0

\* The invited captain has accepted a pending match with one player a side and
\* a fee of 1200: both captains, who had 500 points, are at -100.
C38_Overdrawn ==
  /\ FirstAnswer("accept")
  /\ Stored.trophyId = BigTrophy.id
  /\ Stored.myPlayers = <<"ch">>
  /\ players["ch"].points = -100
  /\ players["ca"].points = -100

\* C37: a change settlement made to a player document is never lost to a
\* notification delivered to the same player at the same time, nor the
\* notification to the settlement: no step takes a match, a points credit, a
\* history entry or a delivered notification back out of a player document.
C37_NothingLost ==
  [][\A q \in DOMAIN players :
       /\ players'[q].matches >= players[q].matches
       /\ players'[q].points >= players[q].points
       /\ Len(players'[q].matchHistory) >= Len(players[q].matchHistory)
       /\ \A k \in NotifKinds :
            players'[q].notifications[k] >= players[q].notifications[k]]_vars

\* The match is final and the home captain was told by the sweeper that it is
\* over, but the captain's document shows no match played and no points won.
C37_SettlementLost ==
  /\ Returned("p1", "submit")
  /\ loc["p1"].result = "finalized"
  /\ pc[Sweeper] = "idle"
  /\ Stored.status = "final"
  /\ players["ch"].notifications["completed"] = 1
  /\ players["ch"].matches = 0
  /\ players["ch"].matchHistory = << >>
  /\ players["ca"].matches = 1

\* The stored match names no trophy that trophies.get finds.
Orphan == Stored.trophyId \notin trophies

\* C36: a match without a trophy never reaches final; once both captains have
\* submitted both flags stay true, every submitStats call that returns returns
\* an error, and only the sweeper's save changes the status.
C36_OrphanStaysPut ==
  [][(Orphan /\ BothSubmitted(Stored))
       => /\ Stored'.status # "final"
          /\ BothSubmitted(Stored')
          /\ (pc["p1"] # "done" /\ pc'["p1"] = "done")
               => loc'["p1"].result \in ErrorResults
          /\ Stored'.status # Stored.status
               => pc[Sweeper] = "w_save"]_vars

\* Both captains had submitted; the home captain submitted again, the sweeper
\* completed the match and told the captains while that request was in flight,
\* and the request's save has put the status back to upcoming.
C36_StatusPutBack ==
  /\ Orphan
  /\ calls = 1
  /\ Returned("p1", "submit")
  /\ loc["p1"].caller = "ch"
  /\ loc["p1"].rd = "upcoming"
  /\ loc["p1"].result = "TrophyNotFound"
  /\ okSubmit = {"ch", "ca"}
  /\ players["ch"].notifications["completed"] = 1
  /\ pc[Sweeper] = "idle"
  /\ BothSubmitted(Stored)
  /\ Stored.status = "upcoming"

\* The players of the stored match's two rosters.
OnRoster(q) == InRoster(q, Stored.myPlayers) \/ InRoster(q, Stored.opponentPlayers)

\* C35: settlement changes only the documents of the players on the match's
\* rosters and each of them at most once, whatever the stat arrays name: a
\* roster player has played no more matches than settlements have run, and a
\* player of neither roster is as registered.
C35_OnlyRosterOnce ==
  \A q \in DOMAIN players :
    IF OnRoster(q)
      THEN /\ players[q].matches <= settleRuns
           /\ Len(players[q].matchHistory) <= settleRuns
      ELSE /\ players[q].matches = 0
           /\ players[q].points = InitialPoints
           /\ players[q].matchHistory = << >>

\* One settlement has run on two records for the home captain: the captain has
\* two matches, two wins and two history entries from the one match.
C35_SettledTwice ==
  /\ Returned("p1", "submit")
  /\ loc["p1"].result = "finalized"
  /\ settleRuns = 1
  /\ Len(Stored.myTeamStats.recs) = 2
  /\ players["ch"].matches = 2
  /\ players["ch"].wins = 2
  /\ Len(players["ch"].matchHistory) = 2

\* The goals of a side's stat records, added up record by record.
GoalsOf(recs) == SumGoals(recs)

\* <<wins, losses, draws>> of one match for the side with `mine` goals against
\* `theirs`.
Outcome(mine, theirs) ==
  IF mine > theirs THEN <<1, 0, 0>>
  ELSE IF mine < theirs THEN <<0, 1, 0>> ELSE <<0, 0, 1>>

\* C33: settlement names as winner the team whose records sum to strictly
\* more goals, or a draw when the sums are equal; every participating player's
\* matches and each team's matchesPlayed rise by 1 together with exactly the
\* one of wins / losses / draws that the result gives their side, and
\* matches = wins + losses + draws holds throughout for players and teams.
C33_ResultAndCounters ==
  LET my == GoalsOf(Stored.myTeamStats.recs)
      opp == GoalsOf(Stored.oppTeamStats.recs)
      nMy == Len(Stored.myTeamStats.recs)
  IN /\ \A q \in DOMAIN players :
          players[q].matches = players[q].wins + players[q].losses + players[q].draws
     /\ \A t \in TeamIds :
          teams[t].matchesPlayed = teams[t].wins + teams[t].losses + teams[t].draws
     /\ Stored.status = "final" =>
          /\ Stored.result.winner =
               (IF my > opp THEN "H" ELSE IF opp > my THEN "A" ELSE "draw")
          /\ Stored.result.myGoals = my /\ Stored.result.oppGoals = opp
          /\ <<teams["H"].matchesPlayed, teams["H"].wins, teams["H"].losses,
               teams["H"].draws>> = <<1>> \o Outcome(my, opp)
          /\ <<teams["A"].matchesPlayed, teams["A"].wins, teams["A"].losses,
               teams["A"].draws>> = <<1>> \o Outcome(opp, my)
          /\ \A q \in DOMAIN players :
               IF RecordsOf(q) = {}
                 THEN players[q].matches = 0
                 ELSE \A i \in RecordsOf(q) :
                        <<players[q].matches, players[q].wins, players[q].losses,
                          players[q].draws>> =
                          <<1>> \o (IF i <= nMy THEN Outcome(my, opp)
                                    ELSE Outcome(opp, my))

\* The home side has won four goals to one: both its players have a match and
\* a win, the away captain a match and a defeat, and the teams likewise.
C33_HomeWin ==
  /\ Stored.status = "final"
  /\ Stored.result.winner = "H"
  /\ Stored.result.myGoals = 4 /\ Stored.result.oppGoals = 1
  /\ players["ch"].wins = 1 /\ players["h2"].wins = 1
  /\ players["ca"].losses = 1 /\ players["ca"].matches = 1
  /\ teams["H"].wins = 1 /\ teams["A"].losses = 1

\* The base share a final match has credited to q: what q's points have gained
\* since the fee was taken, less the goal, assist and MOTM bonuses of q's record.
BaseShare(q) ==
  LET trophy == TrophyDoc(Stored.trophyId)
      bonus(r) == (IF r.goals > 0 THEN r.goals * trophy.bonuses.goal ELSE 0)
                + (IF r.assists > 0 THEN r.assists * trophy.bonuses.assist ELSE 0)
                + (IF Stored.result.motm = q THEN trophy.bonuses.motm ELSE 0)
  IN IF RecordsOf(q) = {} THEN players[q].points - StartPoints(q, trophy)
     ELSE players[q].points - StartPoints(q, trophy)
          - bonus(AllStats(Stored)[CHOOSE i \in RecordsOf(q) : TRUE])

BaseShares == BaseShare("ch") + BaseShare("h2") + BaseShare("ca")

\* The stored match is a draw, or its trophy's percentages add up to at most 100.
WithinPool ==
  \/ Stored.result.winner = "draw"
  \/ TrophyDoc(Stored.trophyId).distribution.win
       + TrophyDoc(Stored.trophyId).distribution.lose <= 100

M32(current) ==
  CASE current < 700 -> 100
    [] current >= 700 /\ current < 800 -> 70
    [] current >= 800 /\ current < 850 -> 50
    [] current >= 850 /\ current < 900 -> 30
    [] current >= 900 /\ current < 950 -> 15
    [] current >= 950 /\ current < 990 -> 5
    [] OTHER -> 0

\* A skill after the base gains of `gains` (hundredths), one after another:
\* each adds gain * m(value so far), capped at 99 and rounded to one decimal.
RECURSIVE AfterGains(_, _)
AfterGains(current, gains) ==
  IF gains = << >> THEN current
  ELSE AfterGains(Rounded(Min(990000, current * 1000 + Head(gains) * M32(current)),
                          1000),
                  Tail(gains))

\* The base gains one settlement gives skill sk of a player, in order: the
\* position's gain, then goals, assists, clean sheet and Man of the Match.
GainsOf(sk, doc, w, res) ==
  (IF sk \in DOMAIN PositionGains(doc.position)
     THEN <<PositionGains(doc.position)[sk]>> ELSE << >>)
  \o (IF sk = "shooting" /\ w.stat.goals # 0 THEN <<w.stat.goals * 50>> ELSE << >>)
  \o (IF sk = "passing" /\ w.stat.assists # 0 THEN <<w.stat.assists * 40>> ELSE << >>)
  \o (IF sk = "defence" /\ w.isWinner /\ doc.position = "Defender" /\ res.oppGoals = 0
        THEN <<50>> ELSE << >>)
  \o (IF sk = "dribbling" /\ res.motm = w.stat.playerId THEN <<100>> ELSE << >>)

\* C32: every skill a settlement writes is the old value after improveSkill's
\* gains in order, each gain times m(value left by the gain before), capped at
\* 99 and rounded to one decimal.
C32_DiminishingGains ==
  [][\A q \in DOMAIN players :
       SettlementWrites(q) =>
         \A sk \in AllSkills :
           players'[q].skills[sk] =
             AfterGains(players[q].skills[sk],
                        GainsOf(sk, players[q], Head(loc["p1"].work), loc["p1"].res))]_vars

\* A forward at 69.8 has scored twice: shooting went to 70.1 by the position's
\* 0.3 and then to 70.8 by 1.0 * 0.7, and the away captain, a forward at 96.0
\* without a goal, still has shooting 96.0.
C32_GainsDamped ==
  /\ Stored.status = "final"
  /\ Stored.myTeamStats = StatsOf("brace", "ch")
  /\ players["ch"].position = "Forward"
  /\ players["ch"].matches = 1
  /\ players["ch"].skills["pace"] = 701
  /\ players["ch"].skills["shooting"] = 708
  /\ players["ca"].matches = 1
  /\ Stored.oppTeamStats = StatsOf("nogoal", "ca")
  /\ players["ca"].skills["passing"] = 960
  /\ players["ca"].skills["shooting"] = 960

\* C31: the cleanup removes only notifications that are at least 7 days old; a
\* notification delivered to a player while the cleanup runs is still there
\* afterwards: no step takes a notification newer than 7 days out of a player
\* document.
C31_RecentKept ==
  [][\A q \in DOMAIN players : \A k \in NotifKinds \ StaleKinds :
       players'[q].notifications[k] >= players[q].notifications[k]]_vars

\* The match is completed and both jobs are done: the cleanup has removed the
\* home captain's old notification and with it the "Match Completed" one that
\* arrived between its scan and its replace; the away captain has kept it.
C31_DeliveryPruned ==
  /\ pc[Cleaner] = "done"
  /\ pc[Sweeper] = "idle"
  /\ Stored.status = "completed"
  /\ players["ch"].notifications["upcoming"] = 0
  /\ players["ch"].notifications["completed"] = 0
  /\ players["ca"].notifications["upcoming"] = 0
  /\ players["ca"].notifications["completed"] = 1

\* C40: a createMatch call that returns an error (the caller captains no
\* team, the opponent team is not found, the notification fails) leaves no
\* match document of its own stored.
C40_FailedCreateStoresNothing ==
  \A p \in Procs :
    (Returned(p, "create") /\ loc[p].result \in ErrorResults)
      => /\ loc[p].matchId \notin DOMAIN matches
         /\ ~loc[p].wrote

\* The first POST /match named an opponent team that does not exist: it was
\* answered 500 and its match is stored, pending, with nobody invited.
C40_OrphanMatchStored ==
  /\ calls = 1
  /\ Returned("p1", "create")
  /\ loc["p1"].opponentTeamId = NoTeam
  /\ loc["p1"].result = "ServerError"
  /\ DOMAIN matches = {loc["p1"].matchId}
  /\ matches[loc["p1"].matchId].status = "pending"
  /\ \A q \in DOMAIN players : players[q].notifications["match_invite"] = 0

====
